---- MODULE Spec2Model ----
(***************************************************************************)
(* Model of the two pipelines of the Cognitive-Mirage repository:          *)
(*   - the Perspective Engine, class KrangCore (src/krangcorevariant.ts)   *)
(*   - the Realtime Selector, processInRealTime (src/realtimeprocessor.ts) *)
(*                                                                         *)
(* Numbers.  A confidence of the Engine is a fixed-point integer in units  *)
(* of 1/Scale (products are rounded down to that grid); the quotients the  *)
(* code forms (the mean over the perspectives, the running mean, the       *)
(* recursion efficiency, the network density) are exact fractions          *)
(* [num, den], with den = 0 for the results of a JavaScript division by    *)
(* zero (Infinity when num > 0, NaN when num = 0).                         *)
(*                                                                         *)
(* Strings.  A template string is a tuple of its template name and the     *)
(* values interpolated into it; concatenation is \o, so that the           *)
(* "[Refined] " prefix is a real prefix.                                   *)
(*                                                                         *)
(* Math.random() is a cyclic stream of draws fixed at start-up, of which   *)
(* every call consumes the next element.                                   *)
(***************************************************************************)
EXTENDS Integers, Sequences, FiniteSets, TLC

VARIABLES
    \* ---- KrangCore instance (krangcorevariant.ts 55-65)
    beliefLevels,          \* this.beliefLevels
    primaryPerspectives,   \* this.primaryPerspectives
    mentalContextStack,    \* this.mentalContextStack
    activePerspectives,    \* this.activePerspectives : name -> weight
    insightNetwork,        \* this.insightNetwork : name -> (name -> entry)
    performanceMetrics,    \* this.performanceMetrics
    \* ---- Math.random()
    rngStream, rngPos,
    \* ---- the processProblem call in progress (its locals and position)
    pc, problem, results, pi, si, ti, thrown,
    \* ---- what the callers have seen
    ret,                   \* outcome of the last processProblem call, and what
                           \* processWithKrang makes of it
    returned,              \* synthesis.confidence of every call that returned
    calls, throwsLeft,
    \* ---- a caller merging one refinement into one base, again and again
    mBase, mRefined, mBase0, mMerges,
    \* ---- a caller of processInRealTime
    rtQuestion, rtAnswer

engineVars == <<beliefLevels, primaryPerspectives, mentalContextStack,
                activePerspectives, insightNetwork, performanceMetrics,
                rngStream, rngPos, pc, problem, results, pi, si, ti, thrown,
                ret, returned, calls, throwsLeft>>

mergeVars == <<mBase, mRefined, mBase0, mMerges>>
selectorVars == <<rtQuestion, rtAnswer>>

vars == <<engineVars, mergeVars, selectorVars>>

-----------------------------------------------------------------------------
(* Bounds of the model *)

MaxPerspectives == 3     \* longest configured perspective list
MaxPeriod == 2           \* longest period of the stream of random draws
MaxCalls == 3            \* processProblem calls per instance
MaxThrows == 1           \* forced internal errors per instance

-----------------------------------------------------------------------------
(* Numbers *)

Scale == 1000

\* Math.random() returns a value in [0,1): 0 and the largest value of the grid.
Draws == {0, Scale - 1}

Max(a, b) == IF a >= b THEN a ELSE b
Min(a, b) == IF a <= b THEN a ELSE b

RECURSIVE GCD(_, _)
GCD(a, b) == IF b = 0 THEN a ELSE CHOOSE g \in {GCD(b, r) : r \in {a % b}} : TRUE

\* The fraction n/d in lowest terms; d = 0 is kept for Infinity (1/0) and NaN (0/0).
Frac(n, d) ==
    IF d = 0 THEN [num |-> IF n > 0 THEN 1 ELSE 0, den |-> 0]
    ELSE LET g == GCD(n, d) IN [num |-> n \div g, den |-> d \div g]

IsFinite(q) == q.den # 0
Zero == Frac(0, 1)
FracOfFixed(c) == Frac(c, Scale)
FracLeq(p, q) == p.num * q.den <= q.num * p.den
FracAdd(p, q) ==
    IF IsFinite(p) /\ IsFinite(q)
    THEN LET l == (p.den \div GCD(p.den, q.den)) * q.den
         IN  Frac(p.num * (l \div p.den) + q.num * (l \div q.den), l)
    ELSE IF IsFinite(p) THEN q
    ELSE IF IsFinite(q) THEN p
    ELSE Frac(Min(p.num, q.num), 0)
FracTimesInt(p, n) == Frac(p.num * n, p.den)
FracDivInt(p, n) == IF IsFinite(p) THEN Frac(p.num, p.den * n) ELSE p

RECURSIVE SumSeq(_)
SumSeq(s) == IF s = <<>> THEN 0 ELSE Head(s) + SumSeq(Tail(s))

RECURSIVE FracSum(_)
FracSum(s) == IF s = <<>> THEN Zero ELSE FracAdd(Head(s), FracSum(Tail(s)))

RECURSIVE Concat(_)
Concat(ss) == IF ss = <<>> THEN <<>> ELSE Head(ss) \o Concat(Tail(ss))

Map(f(_), s) == [n \in 1..Len(s) |-> f(s[n])]

\* F of the value v, with v worked out once
With(v, F(_)) == CHOOSE y \in {F(x) : x \in {v}} : TRUE

Range(s) == {s[n] : n \in 1..Len(s)}

-----------------------------------------------------------------------------
(* Math.random() *)

\* The draw the next Math.random() call returns, and the position after n draws.
NextDraw(n) == rngStream[((rngPos - 1 + n) % Len(rngStream)) + 1]
Advance(n) == ((rngPos - 1 + n) % Len(rngStream)) + 1

RandomStreams == UNION {[1..p -> Draws] : p \in 1..MaxPeriod}

\* 0.85 + Math.random() * 0.15
Jitter(r) == ((85 * Scale) \div 100) + ((r * 15) \div 100)


-----------------------------------------------------------------------------
(* KrangCore: construction *)

\* constructor, this.primaryPerspectives
DefaultPerspectives ==
    <<"empirical", "theoretical", "contextual", "pragmatic", "ethical",
      "mathematical", "systems", "complexity", "evolutionary", "quantum",
      "computational", "pattern-based", "statistical", "informational",
      "emergence">>

\* constructor, this.beliefLevels
DefaultBeliefLevels == 3

\* Object.assign(this, config): a configured list is a prefix of the default
\* list, or such a prefix with its first name given twice.
PerspectiveLists ==
    {SubSeq(DefaultPerspectives, 1, n) : n \in 1..MaxPerspectives}
    \cup {<<DefaultPerspectives[1]>> \o SubSeq(DefaultPerspectives, 1, n - 1) :
             n \in 2..MaxPerspectives}

\* The questions handed to processProblem (title and description).
Problems == {"fusion reactor design", ""}

InitialMetrics ==
    [problemsSolved |-> 0,
     averageConfidence |-> Zero,
     perspectiveUtilization |-> <<>>,
     recursionEfficiency |-> Frac(1, 1)]

NoResult == [status |-> "none"]

-----------------------------------------------------------------------------
(* KrangCore: the pure parts of its methods *)

MetaContext == [perspective |-> "meta", level |-> 0]

\* pushMentalContext: the entry pushed (its timestamp is not modelled)
pushMentalContext(stack, perspective, level) ==
    Append(stack, [perspective |-> perspective, level |-> level])

\* popMentalContext without the pop
popMentalContextKeepingTop(stack) == stack

\* popMentalContext
popMentalContext(stack) ==
    IF Len(stack) > 0 THEN SubSeq(stack, 1, Len(stack) - 1) ELSE stack

\* resetMentalContext without the assignment of [] to the stack
resetMentalContextKeepingStack == pushMentalContext(mentalContextStack, "meta", 0)

\* resetMentalContext
resetMentalContext == pushMentalContext(<<>>, "meta", 0)

\* activatePerspective: this.activePerspectives.set(perspective, weight)
activatePerspective(active, perspective, weight) ==
    (perspective :> weight) @@ active

\* deactivatePerspective without the delete
deactivatePerspectiveKeepingEntry(active, perspective) == active

\* deactivatePerspective: this.activePerspectives.delete(perspective)
deactivatePerspective(active, perspective) ==
    [p \in DOMAIN active \ {perspective} |-> active[p]]

\* resetPerspectives: this.activePerspectives.clear()
resetPerspectives == <<>>

\* countActivatedPerspectives
countActivatedPerspectives(active) == Cardinality(DOMAIN active)

\* getCompatiblePerspectives without the filter
getCompatiblePerspectivesWithSelf(perspective) == primaryPerspectives

\* getCompatiblePerspectives
getCompatiblePerspectives(perspective) ==
    SelectSeq(primaryPerspectives, LAMBDA p : p # perspective)

\* generateId: a string made of one draw
generateId(r) == <<"id", r>>

RefinedPrefix == <<"[Refined] ">>

\* The n-th sentence of a template family.
Ordinal == <<"first", "second", "third">>

\* analyzeProblemFromPerspective; rid and rconf are its two draws
analyzeProblemFromPerspective(prob, perspective, rid, rconf) ==
    [id |-> generateId(rid),
     name |-> perspective,
     specialization |-> <<perspective>>,
     confidence |-> Jitter(rconf),
     insights |-> [n \in 1..3 |-> <<"insight", perspective, Ordinal[n], prob>>],
     recommendations |-> [n \in 1..3 |-> <<"recommend", perspective, Ordinal[n], prob>>],
     limitations |-> [n \in 1..2 |-> <<"limit", perspective, Ordinal[n]>>],
     childPerspectives |-> <<>>]

\* refineAnalysis: the result has no childPerspectives field
refineAnalysis(prob, baseResult, refinementPerspective, rid, rconf) ==
    [id |-> generateId(rid),
     name |-> refinementPerspective,
     specialization |-> <<baseResult.name, "_", refinementPerspective>>,
     confidence |-> (baseResult.confidence * Jitter(rconf)) \div Scale,
     insights |-> [n \in 1..3 |->
                     <<"refined insight", baseResult.name, refinementPerspective, Ordinal[n]>>],
     recommendations |->
         << <<"refined recommend", refinementPerspective, Ordinal[1], prob>>,
            <<"refined recommend", baseResult.name, refinementPerspective, Ordinal[2]>> >>,
     limitations |-> << <<"refined limit", baseResult.name, refinementPerspective>> >>]

Children(p) == IF "childPerspectives" \in DOMAIN p THEN p.childPerspectives ELSE <<>>

Prefixed(s) == RefinedPrefix \o s

\* refinedResult.confidence * 1.1
Boost(c) == (c * 11) \div 10

\* integrateRefinedInsights appending only what baseResult does not hold yet
IntegratedBaseDeduplicating(baseResult, refinedResult) ==
    LET fresh(old, new) == SelectSeq(new, LAMBDA x : x \notin Range(old))
    IN  [n \in DOMAIN baseResult \cup {"childPerspectives"} |->
            CASE n = "insights" ->
                    baseResult.insights
                        \o fresh(baseResult.insights, Map(Prefixed, refinedResult.insights))
              [] n = "recommendations" ->
                    baseResult.recommendations
                        \o fresh(baseResult.recommendations,
                                 Map(Prefixed, refinedResult.recommendations))
              [] n = "confidence" ->
                    Max(baseResult.confidence, Boost(refinedResult.confidence))
              [] n = "childPerspectives" ->
                    Children(baseResult)
                        \o fresh(Children(baseResult), <<refinedResult>>)
              [] OTHER -> baseResult[n]]

\* integrateRefinedInsights taking the boosted confidence without Math.max
IntegratedBaseTakingConfidence(baseResult, refinedResult) ==
    [n \in DOMAIN baseResult \cup {"childPerspectives"} |->
        CASE n = "insights" ->
                baseResult.insights \o Map(Prefixed, refinedResult.insights)
          [] n = "recommendations" ->
                baseResult.recommendations \o Map(Prefixed, refinedResult.recommendations)
          [] n = "confidence" -> Boost(refinedResult.confidence)
          [] n = "childPerspectives" ->
                Append(Children(baseResult), refinedResult)
          [] OTHER -> baseResult[n]]

\* integrateRefinedInsights: what becomes of baseResult
IntegratedBase(baseResult, refinedResult) ==
    [n \in DOMAIN baseResult \cup {"childPerspectives"} |->
        CASE n = "insights" ->
                baseResult.insights \o Map(Prefixed, refinedResult.insights)
          [] n = "recommendations" ->
                baseResult.recommendations \o Map(Prefixed, refinedResult.recommendations)
          [] n = "confidence" ->
                Max(baseResult.confidence, Boost(refinedResult.confidence))
          [] n = "childPerspectives" ->
                Append(Children(baseResult), refinedResult)
          [] OTHER -> baseResult[n]]

\* integrateRefinedInsights with an edge added per merge instead of one set per
\* refining name
IntegratedNetworkAdding(network, baseResult, refinedResult) ==
    LET old == IF baseResult.name \in DOMAIN network
               THEN network[baseResult.name] ELSE <<>>
        entry == [confidence |-> refinedResult.confidence,
                  insights |-> refinedResult.insights]
        key == refinedResult.name \o "#" \o ToString(Cardinality(DOMAIN old))
    IN  (baseResult.name :> ((key :> entry) @@ old)) @@ network

\* integrateRefinedInsights: what becomes of this.insightNetwork
IntegratedNetwork(network, baseResult, refinedResult) ==
    LET old == IF baseResult.name \in DOMAIN network
               THEN network[baseResult.name] ELSE <<>>
        entry == [confidence |-> refinedResult.confidence,
                  insights |-> refinedResult.insights]
    IN  (baseResult.name :> ((refinedResult.name :> entry) @@ old)) @@ network

\* calculateInsightNetworkComplexity
calculateInsightNetworkComplexity(network) ==
    LET nodeCount == Cardinality(DOMAIN network)
        sizes == [n \in DOMAIN network |-> Cardinality(DOMAIN network[n])]
        RECURSIVE Total(_)
        Total(S) == IF S = {} THEN 0
                    ELSE LET n == CHOOSE x \in S : TRUE
                         IN  sizes[n] + Total(S \ {n})
        edgeCount == Total(DOMAIN network)
    IN  [nodes |-> nodeCount,
         edges |-> edgeCount,
         density |-> IF nodeCount > 0
                     THEN Frac(edgeCount, nodeCount * (nodeCount - 1))
                     ELSE Zero]

\* deduplicateAndRank handing its items back as they are
deduplicateAndRankKeepingAll(items) == items

\* deduplicateAndRank: Array.from(new Set(items)) keeps the first occurrences;
\* the items are taken half by half
RECURSIVE deduplicateAndRank(_)
deduplicateAndRank(items) ==
    With(items, LAMBDA all :
        IF Len(all) <= 1 THEN all
        ELSE With(deduplicateAndRank(SubSeq(all, 1, Len(all) \div 2)), LAMBDA front :
             With(Range(front), LAMBDA seen :
                 front \o SelectSeq(
                     deduplicateAndRank(SubSeq(all, Len(all) \div 2 + 1, Len(all))),
                     LAMBDA x : x \notin seen))))

\* Array.prototype.slice(0, n)
Slice(s, n) == SubSeq(s, 1, Min(n, Len(s)))

\* calculateConsilienceScore
calculateConsilienceScore(r) == Jitter(r)

\* synthesizeResults; r is the draw of the consilience score
synthesizeResults(res, network, r) ==
    LET allInsights == Concat([n \in 1..Len(res) |-> res[n].insights])
        allRecommendations == Concat([n \in 1..Len(res) |-> res[n].recommendations])
        overallConfidence ==
            Frac(SumSeq([n \in 1..Len(res) |-> res[n].confidence]), Scale * Len(res))
    IN  [confidenceByPerspective |->
             [n \in 1..Len(res) |->
                 [perspective |-> res[n].name, confidence |-> res[n].confidence]],
         keyInsights |-> Slice(deduplicateAndRank(allInsights), 7),
         keyRecommendations |-> Slice(deduplicateAndRank(allRecommendations), 5),
         insightNetworkSize |-> calculateInsightNetworkComplexity(network),
         confidence |-> overallConfidence,
         consilienceScore |-> calculateConsilienceScore(r)]

\* updatePerformanceMetrics averaging the old mean and the new value with equal weights
updatePerformanceMetricsUnweighted(metrics, synthesizedResult, active, levels) ==
    LET solved == metrics.problemsSolved + 1
        used == metrics.perspectiveUtilization
    IN  [problemsSolved |-> solved,
         averageConfidence |->
             IF solved = 1 THEN synthesizedResult.confidence
             ELSE FracDivInt(FracAdd(metrics.averageConfidence, synthesizedResult.confidence), 2),
         perspectiveUtilization |->
             [p \in DOMAIN used \cup DOMAIN active |->
                 (IF p \in DOMAIN used THEN used[p] ELSE 0)
                 + (IF p \in DOMAIN active THEN 1 ELSE 0)],
         recursionEfficiency |-> FracDivInt(synthesizedResult.confidence, levels)]

\* updatePerformanceMetrics
updatePerformanceMetrics(metrics, synthesizedResult, active, levels) ==
    LET solved == metrics.problemsSolved + 1
        used == metrics.perspectiveUtilization
    IN  [problemsSolved |-> solved,
         averageConfidence |->
             FracDivInt(FracAdd(FracTimesInt(metrics.averageConfidence, solved - 1),
                                synthesizedResult.confidence),
                        solved),
         perspectiveUtilization |->
             [p \in DOMAIN used \cup DOMAIN active |->
                 (IF p \in DOMAIN used THEN used[p] ELSE 0)
                 + (IF p \in DOMAIN active THEN 1 ELSE 0)],
         recursionEfficiency |-> FracDivInt(synthesizedResult.confidence, levels)]

-----------------------------------------------------------------------------
(* processWithKrang: what it makes of the result of processProblem *)

\* (x * 100).toFixed(1) and x.toFixed(2): the number of thousandths, of
\* hundredths, to the nearest one, or the name of a value that is no number
Rendered(q, unit) ==
    IF IsFinite(q) THEN <<"number", (2 * q.num * unit + q.den) \div (2 * q.den)>>
    ELSE IF q.num > 0 THEN <<"Infinity">> ELSE <<"NaN">>

\* formatKrangAnswer: the parts the answer is put together from
formatKrangAnswer(result) ==
    LET keyInsights == result.synthesis.keyInsights
    IN  [question |-> result.problem,
         perspectives |-> Len(result.perspectives),
         confidence |-> Rendered(result.confidence, 1000),
         keyInsights |-> Slice(keyInsights, 3),
         topInsight |->
             IF Len(keyInsights) >= 1 THEN <<"without its final stop">> \o keyInsights[1]
             ELSE <<"Based on comprehensive analysis">>,
         secondInsight |->
             IF Len(keyInsights) >= 2 THEN <<"without its opening">> \o keyInsights[2]
             ELSE <<"through multiple specialized perspectives">>,
         consilienceScore |-> Rendered(FracOfFixed(result.synthesis.consilienceScore), 1000)]

\* processWithKrang with p.insights.slice(0, 4)
processWithKrangFourInsights(result) ==
    [answer |-> formatKrangAnswer(result),
     confidence |-> result.confidence,
     perspectives |->
         [n \in 1..Len(result.perspectives) |->
             LET p == result.perspectives[n]
             IN  [name |-> p.name,
                  specialization |-> p.specialization,
                  confidence |-> p.confidence,
                  insights |-> Slice(p.insights, 4),
                  childCount |-> Len(Children(p))]],
     processingSteps |-> <<>>,
     keyInsights |-> Slice(result.synthesis.keyInsights, 5)]

\* processWithKrang, lines 588-610
processWithKrang(result) ==
    [answer |-> formatKrangAnswer(result),
     confidence |-> result.confidence,
     perspectives |->
         [n \in 1..Len(result.perspectives) |->
             LET p == result.perspectives[n]
             IN  [name |-> p.name,
                  specialization |-> p.specialization,
                  confidence |-> p.confidence,
                  insights |-> Slice(p.insights, 3),
                  childCount |-> Len(Children(p))]],
     processingSteps |->
         << <<"Analyzed problem complexity and identified key domains.">>,
            <<"Created specialized cognitive perspectives", Len(result.perspectives)>>,
            <<"Generated total insights",
              SumSeq([n \in 1..Len(result.perspectives) |->
                         Len(result.perspectives[n].insights)])>>,
            <<"Performed recursive refinement", result.mentalProcessStats.maxRecursionDepth>>,
            <<"Synthesized final answer", Rendered(result.confidence, 100)>> >>,
     keyInsights |-> Slice(result.synthesis.keyInsights, 5)]

-----------------------------------------------------------------------------
(* KrangCore.processProblem, step by step *)

\* the instance after construction, and no call yet
ConstructedButNetwork ==
    /\ mentalContextStack = <<>>
    /\ activePerspectives = <<>>
    /\ performanceMetrics = InitialMetrics
    /\ rngPos = 1
    /\ pc = "idle"
    /\ problem = ""
    /\ results = <<>>
    /\ pi = 0 /\ si = 0 /\ ti = 0
    /\ thrown = FALSE
    /\ ret = NoResult
    /\ returned = <<>>
    /\ calls = 0
    /\ throwsLeft = MaxThrows

Constructed == ConstructedButNetwork /\ insightNetwork = <<>>

NoMerge == mBase = <<>> /\ mRefined = <<>> /\ mBase0 = <<>> /\ mMerges = 0
NoQuestion == rtQuestion = <<>> /\ rtAnswer = [status |-> "none"]

Init ==
    /\ beliefLevels \in 1..DefaultBeliefLevels
    /\ primaryPerspectives \in PerspectiveLists
    /\ rngStream \in RandomStreams
    /\ Constructed
    /\ NoMerge
    /\ NoQuestion

config == <<beliefLevels, primaryPerspectives, rngStream>>
observed == <<ret, returned>>

\* the loop of line 113 going through the list from its end
perspectiveFromEnd == primaryPerspectives[Len(primaryPerspectives) + 1 - pi]

perspective == primaryPerspectives[pi]
compatiblePerspectives == getCompatiblePerspectives(perspective)
secondaryPerspective == compatiblePerspectives[si]
tertiaryPerspectives == getCompatiblePerspectives(secondaryPerspective)
tertiaryPerspective == tertiaryPerspectives[ti]
perspectiveResult == results[Len(results)]
refinedResult == perspectiveResult.childPerspectives[Len(perspectiveResult.childPerspectives)]

\* lines 104-109: resetPerspectives, push the meta context, results = []
ProcessProblem ==
    /\ pc = "idle"
    /\ calls < MaxCalls
    /\ \E prob \in Problems : problem' = prob
    /\ calls' = calls + 1
    /\ activePerspectives' = resetPerspectives
    /\ mentalContextStack' = pushMentalContext(mentalContextStack, "meta", 0)
    /\ results' = <<>>
    /\ thrown' = FALSE
    /\ pi' = 1 /\ si' = 0 /\ ti' = 0
    /\ pc' = IF Len(primaryPerspectives) > 0 THEN "perspective" ELSE "synthesize"
    /\ ret' = NoResult
    /\ UNCHANGED <<mergeVars, selectorVars>>
    /\ UNCHANGED <<config, insightNetwork, performanceMetrics, rngPos, returned, throwsLeft>>

\* lines 113-118: activate the perspective and push its context
EnterPerspective ==
    /\ pc = "perspective"
    /\ activePerspectives' = activatePerspective(activePerspectives, perspective, Scale)
    /\ mentalContextStack' = pushMentalContext(mentalContextStack, perspective, 1)
    /\ pc' = "analyze"
    /\ UNCHANGED <<mergeVars, selectorVars>>
    /\ UNCHANGED <<config, insightNetwork, performanceMetrics, rngPos, problem, results,
                   pi, si, ti, thrown, observed, calls, throwsLeft>>

\* Analyze without the test of line 126
AnalyzeRefiningAlways ==
    /\ pc = "analyze"
    /\ results' = Append(results,
           analyzeProblemFromPerspective(problem, perspective, NextDraw(0), NextDraw(1)))
    /\ rngPos' = Advance(2)
    /\ si' = 1
    /\ pc' = IF Len(compatiblePerspectives) > 0 THEN "secondary" ELSE "leave perspective"
    /\ UNCHANGED <<mergeVars, selectorVars>>
    /\ UNCHANGED <<config, mentalContextStack, activePerspectives, insightNetwork,
                   performanceMetrics, problem, pi, ti, thrown, observed, calls, throwsLeft>>

\* lines 122-127
Analyze ==
    /\ pc = "analyze"
    /\ results' = Append(results,
           analyzeProblemFromPerspective(problem, perspective, NextDraw(0), NextDraw(1)))
    /\ rngPos' = Advance(2)
    /\ si' = 1
    /\ pc' = IF beliefLevels > 1 /\ Len(compatiblePerspectives) > 0
             THEN "secondary" ELSE "leave perspective"
    /\ UNCHANGED <<mergeVars, selectorVars>>
    /\ UNCHANGED <<config, mentalContextStack, activePerspectives, insightNetwork,
                   performanceMetrics, problem, pi, ti, thrown, observed, calls, throwsLeft>>

\* an error thrown inside analyzeProblemFromPerspective
AnalyzeThrows ==
    /\ pc = "analyze"
    /\ throwsLeft > 0
    /\ throwsLeft' = throwsLeft - 1
    /\ thrown' = TRUE
    /\ pc' = "leave perspective"
    /\ UNCHANGED <<mergeVars, selectorVars>>
    /\ UNCHANGED <<config, mentalContextStack, activePerspectives, insightNetwork,
                   performanceMetrics, rngPos, problem, results, pi, si, ti, observed, calls>>

\* lines 128-130
EnterSecondary ==
    /\ pc = "secondary"
    /\ mentalContextStack' = pushMentalContext(mentalContextStack, secondaryPerspective, 2)
    /\ pc' = "refine"
    /\ UNCHANGED <<mergeVars, selectorVars>>
    /\ UNCHANGED <<config, activePerspectives, insightNetwork, performanceMetrics, rngPos,
                   problem, results, pi, si, ti, thrown, observed, calls, throwsLeft>>

\* lines 134-145: refine, then integrate into the perspective's result
Refine ==
    /\ pc = "refine"
    /\ LET refined == refineAnalysis(problem, perspectiveResult, secondaryPerspective,
                                     NextDraw(0), NextDraw(1))
       IN  /\ insightNetwork' = IntegratedNetwork(insightNetwork, perspectiveResult, refined)
           /\ results' = [results EXCEPT ![Len(results)] =
                             IntegratedBase(perspectiveResult, refined)]
    /\ rngPos' = Advance(2)
    /\ ti' = 1
    /\ pc' = IF beliefLevels > 2 /\ Len(tertiaryPerspectives) > 0
             THEN "tertiary" ELSE "leave secondary"
    /\ UNCHANGED <<mergeVars, selectorVars>>
    /\ UNCHANGED <<config, mentalContextStack, activePerspectives, performanceMetrics,
                   problem, pi, si, thrown, observed, calls, throwsLeft>>

\* an error thrown inside refineAnalysis at level 2
RefineThrows ==
    /\ pc = "refine"
    /\ throwsLeft > 0
    /\ throwsLeft' = throwsLeft - 1
    /\ thrown' = TRUE
    /\ pc' = "leave secondary"
    /\ UNCHANGED <<mergeVars, selectorVars>>
    /\ UNCHANGED <<config, mentalContextStack, activePerspectives, insightNetwork,
                   performanceMetrics, rngPos, problem, results, pi, si, ti, observed, calls>>

\* lines 146-148
EnterTertiary ==
    /\ pc = "tertiary"
    /\ mentalContextStack' = pushMentalContext(mentalContextStack, tertiaryPerspective, 3)
    /\ pc' = "deep refine"
    /\ UNCHANGED <<mergeVars, selectorVars>>
    /\ UNCHANGED <<config, activePerspectives, insightNetwork, performanceMetrics, rngPos,
                   problem, results, pi, si, ti, thrown, observed, calls, throwsLeft>>

\* lines 152-159: refine the level-2 result and integrate into it; the level-2
\* result is the object that was appended to the perspective's children
DeepRefine ==
    /\ pc = "deep refine"
    /\ LET deeplyRefinedResult ==
               refineAnalysis(problem, refinedResult, tertiaryPerspective,
                              NextDraw(0), NextDraw(1))
           last == Len(perspectiveResult.childPerspectives)
       IN  /\ insightNetwork' =
                  IntegratedNetwork(insightNetwork, refinedResult, deeplyRefinedResult)
           /\ results' = [results EXCEPT ![Len(results)].childPerspectives[last] =
                             IntegratedBase(refinedResult, deeplyRefinedResult)]
    /\ rngPos' = Advance(2)
    /\ pc' = "leave tertiary"
    /\ UNCHANGED <<mergeVars, selectorVars>>
    /\ UNCHANGED <<config, mentalContextStack, activePerspectives, performanceMetrics,
                   problem, pi, si, ti, thrown, observed, calls, throwsLeft>>

\* an error thrown inside refineAnalysis at level 3
DeepRefineThrows ==
    /\ pc = "deep refine"
    /\ throwsLeft > 0
    /\ throwsLeft' = throwsLeft - 1
    /\ thrown' = TRUE
    /\ pc' = "leave tertiary"
    /\ UNCHANGED <<mergeVars, selectorVars>>
    /\ UNCHANGED <<config, mentalContextStack, activePerspectives, insightNetwork,
                   performanceMetrics, rngPos, problem, results, pi, si, ti, observed, calls>>

\* lines 160-164: finally, pop the tertiary context
LeaveTertiary ==
    /\ pc = "leave tertiary"
    /\ mentalContextStack' = popMentalContext(mentalContextStack)
    /\ IF thrown THEN pc' = "leave secondary" /\ ti' = ti
       ELSE IF ti < Len(tertiaryPerspectives) THEN pc' = "tertiary" /\ ti' = ti + 1
       ELSE pc' = "leave secondary" /\ ti' = ti
    /\ UNCHANGED <<mergeVars, selectorVars>>
    /\ UNCHANGED <<config, activePerspectives, insightNetwork, performanceMetrics, rngPos,
                   problem, results, pi, si, thrown, observed, calls, throwsLeft>>

\* lines 166-170: finally, pop the secondary context
LeaveSecondary ==
    /\ pc = "leave secondary"
    /\ mentalContextStack' = popMentalContext(mentalContextStack)
    /\ IF thrown THEN pc' = "leave perspective" /\ si' = si
       ELSE IF si < Len(compatiblePerspectives) THEN pc' = "secondary" /\ si' = si + 1
       ELSE pc' = "leave perspective" /\ si' = si
    /\ UNCHANGED <<mergeVars, selectorVars>>
    /\ UNCHANGED <<config, activePerspectives, insightNetwork, performanceMetrics, rngPos,
                   problem, results, pi, ti, thrown, observed, calls, throwsLeft>>

\* LeavePerspective with the deactivation after the try statement instead of
\* inside its finally block: an error skips it
LeavePerspectiveDeactivatingAfterTry ==
    /\ pc = "leave perspective"
    /\ mentalContextStack' = popMentalContext(mentalContextStack)
    /\ activePerspectives' = IF thrown THEN activePerspectives
                             ELSE deactivatePerspective(activePerspectives, perspective)
    /\ IF thrown THEN pc' = "finally" /\ pi' = pi
       ELSE IF pi < Len(primaryPerspectives) THEN pc' = "perspective" /\ pi' = pi + 1
       ELSE pc' = "synthesize" /\ pi' = pi
    /\ UNCHANGED <<mergeVars, selectorVars>>
    /\ UNCHANGED <<config, insightNetwork, performanceMetrics, rngPos, problem, results,
                   si, ti, thrown, observed, calls, throwsLeft>>

\* lines 172-179: finally, pop the perspective's context and deactivate it
LeavePerspective ==
    /\ pc = "leave perspective"
    /\ mentalContextStack' = popMentalContext(mentalContextStack)
    /\ activePerspectives' = deactivatePerspective(activePerspectives, perspective)
    /\ IF thrown THEN pc' = "finally" /\ pi' = pi
       ELSE IF pi < Len(primaryPerspectives) THEN pc' = "perspective" /\ pi' = pi + 1
       ELSE pc' = "synthesize" /\ pi' = pi
    /\ UNCHANGED <<mergeVars, selectorVars>>
    /\ UNCHANGED <<config, insightNetwork, performanceMetrics, rngPos, problem, results,
                   si, ti, thrown, observed, calls, throwsLeft>>

\* lines 182-198: synthesize, update the metrics, build the value to return
Synthesize ==
    /\ pc = "synthesize"
    /\ \E synthesizedResult \in {synthesizeResults(results, insightNetwork, NextDraw(0))} :
       LET metrics == updatePerformanceMetrics(performanceMetrics, synthesizedResult,
                                               activePerspectives, beliefLevels)
       IN  /\ performanceMetrics' = metrics
           /\ ret' = [status |-> "pending",
                      value |-> [problem |-> problem,
                                 perspectives |-> results,
                                 synthesis |-> synthesizedResult,
                                 confidence |-> synthesizedResult.confidence,
                                 mentalProcessStats |->
                                     [totalPerspectivesUsed |->
                                          countActivatedPerspectives(activePerspectives),
                                      maxRecursionDepth |-> beliefLevels,
                                      recursionEfficiency |-> metrics.recursionEfficiency]]]
    /\ rngPos' = Advance(1)
    /\ pc' = "finally"
    /\ UNCHANGED <<mergeVars, selectorVars>>
    /\ UNCHANGED <<config, mentalContextStack, activePerspectives, insightNetwork, problem,
                   results, pi, si, ti, thrown, returned, calls, throwsLeft>>

\* Finally with the call counted as solved whether it returns or throws
FinallyCountingTheCall ==
    /\ pc = "finally"
    /\ mentalContextStack' = resetMentalContext
    /\ performanceMetrics' =
           IF thrown
           THEN [performanceMetrics EXCEPT !.problemsSolved = @ + 1]
           ELSE performanceMetrics
    /\ IF thrown
       THEN /\ ret' = [status |-> "threw"]
            /\ returned' = returned
       ELSE /\ ret' = [status |-> "returned",
                       value |-> ret.value,
                       response |-> processWithKrang(ret.value)]
            /\ returned' = Append(returned, ret.value.confidence)
    /\ pc' = "idle"
    /\ problem' = "" /\ results' = <<>> /\ pi' = 0 /\ si' = 0 /\ ti' = 0 /\ thrown' = FALSE
    /\ UNCHANGED <<mergeVars, selectorVars>>
    /\ UNCHANGED <<config, activePerspectives, insightNetwork, rngPos, calls, throwsLeft>>

\* lines 199-203: finally, back to the meta context; the call returns or throws.
\* A call that returns hands its result to processWithKrang (lines 586-610).
Finally ==
    /\ pc = "finally"
    /\ mentalContextStack' = resetMentalContext
    /\ IF thrown
       THEN /\ ret' = [status |-> "threw"]
            /\ returned' = returned
       ELSE /\ ret' = [status |-> "returned",
                       value |-> ret.value,
                       response |-> processWithKrang(ret.value)]
            /\ returned' = Append(returned, ret.value.confidence)
    /\ pc' = "idle"
    \* the locals of the call are gone
    /\ problem' = "" /\ results' = <<>> /\ pi' = 0 /\ si' = 0 /\ ti' = 0 /\ thrown' = FALSE
    /\ UNCHANGED <<mergeVars, selectorVars>>
    /\ UNCHANGED <<config, activePerspectives, insightNetwork, performanceMetrics, rngPos,
                   calls, throwsLeft>>

Next ==
    \/ ProcessProblem
    \/ EnterPerspective
    \/ Analyze
    \/ AnalyzeThrows
    \/ EnterSecondary
    \/ Refine
    \/ RefineThrows
    \/ EnterTertiary
    \/ DeepRefine
    \/ DeepRefineThrows
    \/ LeaveTertiary
    \/ LeaveSecondary
    \/ LeavePerspective
    \/ Synthesize
    \/ Finally

Spec == Init /\ [][Next]_vars

-----------------------------------------------------------------------------
(* new KrangCore({primaryPerspectives: []}): an instance with no perspective *)

\* lines 67-95: the constructor, given an empty list of perspectives
EmptyListInit ==
    /\ beliefLevels \in 1..DefaultBeliefLevels
    /\ primaryPerspectives = <<>>
    /\ rngStream \in RandomStreams
    /\ Constructed
    /\ NoMerge
    /\ NoQuestion

\* the loop of line 113 has no turn
EmptyListNext ==
    \/ ProcessProblem
    \/ Synthesize
    \/ Finally

EmptyListSpec == EmptyListInit /\ [][EmptyListNext]_vars

-----------------------------------------------------------------------------
(* processWithKrang on the singleton instance: the default configuration,  *)
(* no error inside a call, and one step for each turn of the loop of line   *)
(* 113, with all the refinements of its perspective                         *)

DefaultCalls == 2        \* processWithKrang calls on the singleton

\* the draw n places after position pos of the stream, and the position then
DrawFrom(pos, n) == rngStream[((pos - 1 + n) % Len(rngStream)) + 1]
DrawPosition(pos, n) == ((pos - 1 + n) % Len(rngStream)) + 1

\* A perspective object written out field by field: the same value
Settled(p) ==
    With(p, LAMBDA q :
        LET fields == [id |-> q.id,
                       name |-> q.name,
                       specialization |-> q.specialization,
                       confidence |-> q.confidence,
                       insights |-> q.insights,
                       recommendations |-> q.recommendations,
                       limitations |-> q.limitations]
        IN  IF "childPerspectives" \in DOMAIN q
            THEN [childPerspectives |-> q.childPerspectives] @@ fields
            ELSE fields)

\* What the loops of a turn carry along: the result being refined, the
\* insight network, the position in the stream of draws, the context stack.
\* lines 148-163: one tertiary perspective, refining the level-2 result and
\* integrating into it
DeepRefineOne(turn, prob, tertiary) ==
    LET pushed == pushMentalContext(turn.stack, tertiary, 3)
        deeplyRefinedResult ==
            refineAnalysis(prob, turn.result, tertiary,
                           DrawFrom(turn.pos, 0), DrawFrom(turn.pos, 1))
    IN  [result |-> Settled(IntegratedBase(turn.result, deeplyRefinedResult)),
         network |-> IntegratedNetwork(turn.network, turn.result, deeplyRefinedResult),
         pos |-> DrawPosition(turn.pos, 2),
         stack |-> popMentalContext(pushed)]

\* lines 146-164: the loop over the tertiary perspectives
RECURSIVE DeepRefineAll(_, _, _)
DeepRefineAll(turn, prob, tertiary) ==
    IF tertiary = <<>> THEN turn
    ELSE With(DeepRefineOne(turn, prob, Head(tertiary)),
              LAMBDA next : DeepRefineAll(next, prob, Tail(tertiary)))

\* the tertiary loop with line 159 integrating into the perspective's result
RECURSIVE DeepRefineAllIntoBase(_, _, _, _)
DeepRefineAllIntoBase(turn, refined, prob, tertiary) ==
    IF tertiary = <<>> THEN turn
    ELSE LET deeplyRefinedResult ==
                 refineAnalysis(prob, refined, Head(tertiary),
                                DrawFrom(turn.pos, 0), DrawFrom(turn.pos, 1))
         IN  With([result |-> Settled(IntegratedBase(turn.result, deeplyRefinedResult)),
                   network |-> IntegratedNetwork(turn.network, turn.result,
                                                 deeplyRefinedResult),
                   pos |-> DrawPosition(turn.pos, 2),
                   stack |-> turn.stack],
                  LAMBDA next : DeepRefineAllIntoBase(next, refined, prob, Tail(tertiary)))

\* RefineOne with the tertiary loop integrating into the perspective's result
RefineOneIntegratingIntoBase(turn, prob, secondary) ==
    LET pushed == pushMentalContext(turn.stack, secondary, 2)
        refined ==
            refineAnalysis(prob, turn.result, secondary,
                           DrawFrom(turn.pos, 0), DrawFrom(turn.pos, 1))
        inner == [result |-> Settled(IntegratedBase(turn.result, refined)),
                  network |-> IntegratedNetwork(turn.network, turn.result, refined),
                  pos |-> DrawPosition(turn.pos, 2),
                  stack |-> pushed]
    IN  With(DeepRefineAllIntoBase(inner, refined, prob,
                                   getCompatiblePerspectives(secondary)),
             LAMBDA deep :
                 [result |-> deep.result,
                  network |-> deep.network,
                  pos |-> deep.pos,
                  stack |-> popMentalContext(deep.stack)])

\* lines 130-169: one compatible perspective; the refinement is integrated
\* into the perspective's result, and is then, as the last child of that
\* result, what the tertiary loop integrates into
RefineOne(turn, prob, secondary) ==
    LET pushed == pushMentalContext(turn.stack, secondary, 2)
        refined ==
            refineAnalysis(prob, turn.result, secondary,
                           DrawFrom(turn.pos, 0), DrawFrom(turn.pos, 1))
        integrated == IntegratedBase(turn.result, refined)
        inner == [result |-> refined,
                  network |-> IntegratedNetwork(turn.network, turn.result, refined),
                  pos |-> DrawPosition(turn.pos, 2),
                  stack |-> pushed]
    IN  With(IF beliefLevels > 2
             THEN With(inner, LAMBDA entered :
                      DeepRefineAll(entered, prob, getCompatiblePerspectives(secondary)))
             ELSE inner,
             LAMBDA deep :
                 [result |-> Settled([integrated EXCEPT
                                 !.childPerspectives[Len(Children(turn.result)) + 1] =
                                     deep.result]),
                  network |-> deep.network,
                  pos |-> deep.pos,
                  stack |-> popMentalContext(deep.stack)])

\* lines 128-170: the loop over the compatible perspectives
RECURSIVE RefineAll(_, _, _)
RefineAll(turn, prob, secondary) ==
    IF secondary = <<>> THEN turn
    ELSE With(RefineOne(turn, prob, Head(secondary)),
              LAMBDA next : RefineAll(next, prob, Tail(secondary)))

\* line 574: new KrangCore()
SingletonInit ==
    /\ beliefLevels = DefaultBeliefLevels
    /\ primaryPerspectives = DefaultPerspectives
    /\ rngStream \in RandomStreams
    /\ Constructed
    /\ NoMerge
    /\ NoQuestion

\* the questions asked, one after the other
SingletonQuestions == <<"fusion reactor design", "", "fusion reactor design">>

\* lines 577-586: the problem is made of the question
ProcessWithKrang ==
    /\ calls < DefaultCalls
    /\ ProcessProblem
    /\ problem' = SingletonQuestions[calls + 1]

\* lines 113-179: one turn of the loop over the primary perspectives
ProcessPerspective ==
    /\ pc = "perspective"
    /\ LET analysed ==
               [result |-> analyzeProblemFromPerspective(problem, perspective,
                                                         NextDraw(0), NextDraw(1)),
                network |-> insightNetwork,
                pos |-> Advance(2),
                stack |-> pushMentalContext(mentalContextStack, perspective, 1)]
       IN  \E turn \in {IF beliefLevels > 1
                        THEN RefineAll(analysed, problem, compatiblePerspectives)
                        ELSE analysed} :
               /\ results' = Append(results, turn.result)
               /\ insightNetwork' = turn.network
               /\ rngPos' = turn.pos
               /\ mentalContextStack' = popMentalContext(turn.stack)
    /\ activePerspectives' =
           deactivatePerspective(activatePerspective(activePerspectives, perspective, Scale),
                                 perspective)
    /\ IF pi < Len(primaryPerspectives) THEN pc' = "perspective" /\ pi' = pi + 1
       ELSE pc' = "synthesize" /\ pi' = pi
    /\ UNCHANGED <<mergeVars, selectorVars>>
    /\ UNCHANGED <<config, performanceMetrics, problem, si, ti, thrown, observed, calls,
                   throwsLeft>>

SingletonNext ==
    \/ ProcessWithKrang
    \/ ProcessPerspective
    \/ Synthesize
    \/ Finally

SingletonSpec == SingletonInit /\ [][SingletonNext]_vars

\* a call is one run of synchronous code: once started, its next step is taken
SingletonLiveSpec ==
    SingletonSpec /\ WF_vars(ProcessPerspective \/ Synthesize \/ Finally)

-----------------------------------------------------------------------------
(* Realtime Selector: strings.  A string is the sequence of its characters. *)

UpperCase == <<"A","B","C","D","E","F","G","H","I","J","K","L","M","N","O","P","Q","R","S","T","U","V",
        "W","X","Y","Z">>
LowerCase == <<"a","b","c","d","e","f","g","h","i","j","k","l","m","n","o","p","q","r","s","t","u","v",
        "w","x","y","z">>
Digits == {"0", "1", "2", "3", "4", "5", "6", "7", "8", "9"}

\* String.prototype.toLowerCase, character by character
LowerTable ==
    [c \in Range(UpperCase) \cup {"A-tilde"} |->
        IF c = "A-tilde" THEN "a-tilde"
        ELSE LowerCase[CHOOSE n \in 1..Len(UpperCase) : UpperCase[n] = c]]
LowerOf(c) == IF c \in DOMAIN LowerTable THEN LowerTable[c] ELSE c
toLowerCase(s) == [n \in 1..Len(s) |-> LowerOf(s[n])]

\* String.prototype.includes
includes(s, t) ==
    \E n \in 0..(Len(s) - Len(t)) : \A m \in 1..Len(t) : s[n + m] = t[m]

StartsWith(s, t) == Len(t) <= Len(s) /\ \A m \in 1..Len(t) : s[m] = t[m]

\* whitespace, as \s of a regular expression matches it
IsSpace(c) == c \in {" ", "tab", "newline"}

\* String.prototype.split(/\s+/)
RECURSIVE SplitWhitespace(_)
SplitWhitespace(s) ==
    IF \A n \in 1..Len(s) : ~IsSpace(s[n]) THEN <<s>>
    ELSE LET i == CHOOSE n \in 1..Len(s) :
                      IsSpace(s[n]) /\ \A m \in 1..(n - 1) : ~IsSpace(s[m])
             rest == {n \in (i + 1)..Len(s) : ~IsSpace(s[n])}
             j == IF rest = {} THEN Len(s) + 1
                  ELSE CHOOSE n \in rest : \A m \in rest : n <= m
         IN  <<SubSeq(s, 1, i - 1)>> \o SplitWhitespace(SubSeq(s, j, Len(s)))

\* String.prototype.split(/\.\s+/)
RECURSIVE SplitSentences(_)
SplitSentences(s) ==
    LET stops == {n \in 1..(Len(s) - 1) : s[n] = "." /\ IsSpace(s[n + 1])}
    IN  IF stops = {} THEN <<s>>
        ELSE LET i == CHOOSE n \in stops : \A m \in stops : n <= m
                 rest == {n \in (i + 1)..Len(s) : ~IsSpace(s[n])}
                 j == IF rest = {} THEN Len(s) + 1
                      ELSE CHOOSE n \in rest : \A m \in rest : n <= m
             IN  <<SubSeq(s, 1, i - 1)>> \o SplitSentences(SubSeq(s, j, Len(s)))

\* String.prototype.trim
trim(s) ==
    LET solid == {n \in 1..Len(s) : ~IsSpace(s[n])}
    IN  IF solid = {} THEN <<>>
        ELSE SubSeq(s, CHOOSE n \in solid : \A m \in solid : n <= m,
                       CHOOSE n \in solid : \A m \in solid : n >= m)

\* Array.prototype.join
RECURSIVE join(_, _)
join(parts, sep) ==
    IF parts = <<>> THEN <<>>
    ELSE IF Len(parts) = 1 THEN parts[1]
    ELSE parts[1] \o sep \o join(Tail(parts), sep)

\* crypto.createHash("sha256").update(x).digest("hex"): a value that stands for
\* the digest of x
sha256(x) == <<"sha256">> \o x

-----------------------------------------------------------------------------
(* Realtime Selector: its fixed tables *)

domainExperts ==
    <<"quantum_physicist",
      "computational_mathematician",
      "materials_scientist",
      "systems_engineer",
      "evolutionary_biologist",
      "cognitive_neuroscientist",
      "network_theorist",
      "information_theorist">>

\* the name of an expert as a string of characters
ExpertName ==
    [e \in {domainExperts[n] : n \in 1..Len(domainExperts)} |->
        CASE e = "quantum_physicist" ->
                <<"q","u","a","n","t","u","m","_","p","h","y","s","i","c","i","s","t">>
          [] e = "computational_mathematician" ->
                <<"c","o","m","p","u","t","a","t","i","o","n","a","l","_","m","a","t","h","e","m",
                "a","t","i","c","i","a","n">>
          [] e = "materials_scientist" ->
                <<"m","a","t","e","r","i","a","l","s","_","s","c","i","e","n","t","i","s","t">>
          [] e = "systems_engineer" ->
                <<"s","y","s","t","e","m","s","_","e","n","g","i","n","e","e","r">>
          [] e = "evolutionary_biologist" ->
                <<"e","v","o","l","u","t","i","o","n","a","r","y","_","b","i","o","l","o","g","i",
                "s","t">>
          [] e = "cognitive_neuroscientist" ->
                <<"c","o","g","n","i","t","i","v","e","_","n","e","u","r","o","s","c","i","e","n",
                "t","i","s","t">>
          [] e = "network_theorist" ->
                <<"n","e","t","w","o","r","k","_","t","h","e","o","r","i","s","t">>
          [] e = "information_theorist" ->
                <<"i","n","f","o","r","m","a","t","i","o","n","_","t","h","e","o","r","i","s","t">>]

complexTerms ==
    <<<<"q","u","a","n","t","u","m">>,
      <<"f","u","s","i","o","n">>,
      <<"c","o","n","s","c","i","o","u","s","n","e","s","s">>,
      <<"r","e","l","a","t","i","v","i","t","y">>,
      <<"o","r","i","g","i","n">>,
      <<"u","n","i","v","e","r","s","e">>,
      <<"e","v","o","l","u","t","i","o","n">>,
      <<"i","n","t","e","l","l","i","g","e","n","c","e">>,
      <<"g","r","a","v","i","t","y">>,
      <<"d","i","m","e","n","s","i","o","n">>,
      <<"m","u","l","t","i","v","e","r","s","e">>,
      <<"t","h","e","o","r","e","m">>,
      <<"p","a","r","a","d","o","x">>,
      <<"i","n","f","i","n","i","t","y">>,
      <<"c","o","g","n","i","t","i","o","n">>>>

domainKeywords ==
    [e \in {domainExperts[n] : n \in 1..Len(domainExperts)} |->
        CASE e = "quantum_physicist" ->
              <<<<"p","h","y","s","i","c","s">>,
                <<"q","u","a","n","t","u","m">>,
                <<"p","a","r","t","i","c","l","e">>,
                <<"e","n","e","r","g","y">>,
                <<"w","a","v","e">>,
                <<"f","i","e","l","d">>,
                <<"m","a","t","t","e","r">>,
                <<"s","p","a","c","e">>>>
          [] e = "computational_mathematician" ->
              <<<<"a","l","g","o","r","i","t","h","m">>,
                <<"c","o","m","p","u","t","a","t","i","o","n">>,
                <<"t","h","e","o","r","e","m">>,
                <<"p","r","o","o","f">>,
                <<"m","a","t","h","e","m","a","t","i","c","s">>,
                <<"c","a","l","c","u","l","a","t","i","o","n">>,
                <<"f","o","r","m","u","l","a">>>>
          [] e = "materials_scientist" ->
              <<<<"m","a","t","e","r","i","a","l">>,
                <<"c","o","m","p","o","u","n","d">>,
                <<"s","t","r","u","c","t","u","r","e">>,
                <<"c","o","m","p","o","s","i","t","i","o","n">>,
                <<"p","r","o","p","e","r","t","y">>,
                <<"l","a","t","t","i","c","e">>,
                <<"c","r","y","s","t","a","l">>>>
          [] e = "systems_engineer" ->
              <<<<"s","y","s","t","e","m">>,
                <<"d","e","s","i","g","n">>,
                <<"e","f","f","i","c","i","e","n","c","y">>,
                <<"o","p","t","i","m","i","z","a","t","i","o","n">>,
                <<"f","r","a","m","e","w","o","r","k">>,
                <<"a","r","c","h","i","t","e","c","t","u","r","e">>,
                <<"i","n","t","e","g","r","a","t","i","o","n">>>>
          [] e = "evolutionary_biologist" ->
              <<<<"e","v","o","l","u","t","i","o","n">>,
                <<"s","p","e","c","i","e","s">>,
                <<"n","a","t","u","r","a","l"," ","s","e","l","e","c","t","i","o","n">>,
                <<"a","d","a","p","t","a","t","i","o","n">>,
                <<"g","e","n","e">>,
                <<"o","r","g","a","n","i","s","m">>,
                <<"b","i","o","l","o","g","y">>>>
          [] e = "cognitive_neuroscientist" ->
              <<<<"b","r","a","i","n">>,
                <<"m","i","n","d">>,
                <<"c","o","g","n","i","t","i","o","n">>,
                <<"c","o","n","s","c","i","o","u","s","n","e","s","s">>,
                <<"n","e","u","r","a","l">>,
                <<"p","e","r","c","e","p","t","i","o","n">>,
                <<"t","h","o","u","g","h","t">>>>
          [] e = "network_theorist" ->
              <<<<"n","e","t","w","o","r","k">>,
                <<"c","o","n","n","e","c","t","i","o","n">>,
                <<"n","o","d","e">>,
                <<"g","r","a","p","h">>,
                <<"t","o","p","o","l","o","g","y">>,
                <<"d","i","s","t","r","i","b","u","t","i","o","n">>,
                <<"l","i","n","k">>>>
          [] e = "information_theorist" ->
              <<<<"i","n","f","o","r","m","a","t","i","o","n">>,
                <<"e","n","t","r","o","p","y">>,
                <<"b","i","t">>,
                <<"s","i","g","n","a","l">>,
                <<"n","o","i","s","e">>,
                <<"c","h","a","n","n","e","l">>,
                <<"e","n","c","o","d","i","n","g">>,
                <<"d","e","c","o","d","i","n","g">>>>]

\* generateQuantumPhysicsInsight ... generateInformationTheoryInsight: for each
\* expert the branches in the order the code tests them (the substrings of
\* which one must occur in the lower-cased question, and the paragraph
\* returned), and the paragraph of the final else
insightBranches ==
    [e \in {domainExperts[n] : n \in 1..Len(domainExperts)} |->
        CASE e = "quantum_physicist" ->
              <<[keys |-> {<<"f","u","s","i","o","n">>, <<"e","n","e","r","g","y">>},
               text |->
                 <<"Q","u","a","n","t","u","m"," ","t","u","n","n","e","l","i","n","g"," ","e",
                  "f","f","e","c","t","s"," ","c","a","n"," ","b","e"," ","e","n","h","a","n",
                  "c","e","d"," ","t","h","r","o","u","g","h"," ","p","r","e","c","i","s","e",
                  " ","e","l","e","c","t","r","o","n"," ","s","c","r","e","e","n","i","n","g",
                  " ","i","n"," ","d","e","u","t","e","r","i","u","m","-","l","o","a","d","e",
                  "d"," ","p","a","l","l","a","d","i","u","m"," ","l","a","t","t","i","c","e",
                  "s",","," ","p","o","t","e","n","t","i","a","l","l","y"," ","e","n","a","b",
                  "l","i","n","g"," ","f","u","s","i","o","n"," ","r","e","a","c","t","i","o",
                  "n","s"," ","a","t"," ","l","o","w","e","r"," ","t","h","a","n"," ","c","o",
                  "n","v","e","n","t","i","o","n","a","l"," ","t","e","m","p","e","r","a","t",
                  "u","r","e","s"," ","t","h","r","o","u","g","h"," ","b","a","r","r","i","e",
                  "r"," ","p","e","n","e","t","r","a","t","i","o","n"," ","e","n","h","a","n",
                  "c","e","m","e","n","t",".">>],
              [keys |-> {<<"q","u","a","n","t","u","m">>, <<"p","a","r","t","i","c","l","e">>},
               text |->
                 <<"Q","u","a","n","t","u","m"," ","f","i","e","l","d"," ","t","h","e","o","r",
                  "y"," ","s","u","g","g","e","s","t","s"," ","v","i","r","t","u","a","l"," ",
                  "p","a","r","t","i","c","l","e"," ","i","n","t","e","r","a","c","t","i","o",
                  "n","s"," ","c","o","u","l","d"," ","b","e"," ","m","a","n","i","p","u","l",
                  "a","t","e","d"," ","t","h","r","o","u","g","h"," ","v","a","c","u","u","m",
                  " ","e","n","g","i","n","e","e","r","i","n","g"," ","t","o"," ","e","x","t",
                  "r","a","c","t"," ","z","e","r","o","-","p","o","i","n","t"," ","e","n","e",
                  "r","g","y"," ","w","i","t","h"," ","a","p","p","r","o","p","r","i","a","t",
                  "e"," ","r","e","s","o","n","a","n","t"," ","s","t","r","u","c","t","u","r",
                  "e","s"," ","t","h","a","t"," ","s","e","l","e","c","t","i","v","e","l","y",
                  " ","a","m","p","l","i","f","y"," ","p","r","o","d","u","c","t","i","v","e",
                  " ","f","l","u","c","t","u","a","t","i","o","n","s",".">>],
              [keys |-> {<<"g","r","a","v","i","t","y">>, <<"s","p","a","c","e">>},
               text |->
                 <<"G","r","a","v","i","t","a","t","i","o","n","a","l"," ","e","f","f","e","c",
                  "t","s"," ","c","a","n"," ","b","e"," ","u","n","d","e","r","s","t","o","o",
                  "d"," ","a","s"," ","s","p","a","c","e","t","i","m","e"," ","c","u","r","v",
                  "a","t","u","r","e"," ","w","h","i","c","h"," ","e","m","e","r","g","e","s",
                  " ","f","r","o","m"," ","q","u","a","n","t","u","m"," ","e","n","t","a","n",
                  "g","l","e","m","e","n","t"," ","s","t","r","u","c","t","u","r","e","s"," ",
                  "a","t"," ","t","h","e"," ","P","l","a","n","c","k"," ","s","c","a","l","e",
                  ","," ","p","o","t","e","n","t","i","a","l","l","y"," ","o","f","f","e","r",
                  "i","n","g"," ","n","e","w"," ","a","p","p","r","o","a","c","h","e","s"," ",
                  "f","o","r"," ","m","a","n","i","p","u","l","a","t","i","n","g"," ","g","r",
                  "a","v","i","t","a","t","i","o","n","a","l"," ","f","i","e","l","d","s"," ",
                  "t","h","r","o","u","g","h"," ","q","u","a","n","t","u","m"," ","i","n","f",
                  "o","r","m","a","t","i","o","n"," ","p","r","o","c","e","s","s","i","n","g",
                  ".">>]>>
          [] e = "computational_mathematician" ->
              <<[keys |-> {<<"a","l","g","o","r","i","t","h","m">>, <<"c","o","m","p","u","t","a","t","i","o","n">>},
               text |->
                 <<"C","o","m","p","u","t","a","t","i","o","n","a","l"," ","c","o","m","p","l",
                  "e","x","i","t","y"," ","a","n","a","l","y","s","i","s"," ","s","u","g","g",
                  "e","s","t","s"," ","t","h","a","t"," ","q","u","a","n","t","u","m"," ","p",
                  "a","r","a","l","l","e","l","i","s","m"," ","c","o","u","l","d"," ","p","r",
                  "o","v","i","d","e"," ","e","x","p","o","n","e","n","t","i","a","l"," ","s",
                  "p","e","e","d","u","p"," ","f","o","r"," ","s","p","e","c","i","f","i","c",
                  " ","o","p","t","i","m","i","z","a","t","i","o","n"," ","p","r","o","b","l",
                  "e","m","s"," ","t","h","r","o","u","g","h"," ","s","u","p","e","r","p","o",
                  "s","i","t","i","o","n","-","b","a","s","e","d"," ","e","x","p","l","o","r",
                  "a","t","i","o","n"," ","o","f"," ","s","o","l","u","t","i","o","n"," ","l",
                  "a","n","d","s","c","a","p","e","s",".">>],
              [keys |-> {<<"p","r","o","o","f">>, <<"t","h","e","o","r","e","m">>},
               text |->
                 <<"M","a","t","h","e","m","a","t","i","c","a","l"," ","p","r","o","o","f"," ",
                  "s","t","r","u","c","t","u","r","e","s"," ","i","n","d","i","c","a","t","e",
                  " ","t","h","a","t"," ","c","o","n","s","i","s","t","e","n","t"," ","f","o",
                  "r","m","a","l"," ","s","y","s","t","e","m","s"," ","m","u","s","t"," ","n",
                  "e","c","e","s","s","a","r","i","l","y"," ","r","e","m","a","i","n"," ","i",
                  "n","c","o","m","p","l","e","t","e"," ","p","e","r"," ","G","A-tilde",
                  "pilcrow","d","e","l","'","s"," ","t","h","e","o","r","e","m",","," ","s","u",
                  "g","g","e","s","t","i","n","g"," ","t","h","a","t"," ","m","e","t","a","-",
                  "m","a","t","h","e","m","a","t","i","c","a","l"," ","f","r","a","m","e","w",
                  "o","r","k","s"," ","m","i","g","h","t"," ","b","e"," ","n","e","c","e","s",
                  "s","a","r","y"," ","f","o","r"," ","c","o","m","p","l","e","t","e"," ","s",
                  "o","l","u","t","i","o","n","s",".">>]>>
          [] e = "materials_scientist" ->
              <<[keys |-> {<<"m","a","t","e","r","i","a","l">>, <<"s","t","r","u","c","t","u","r","e">>},
               text |->
                 <<"N","a","n","o","s","t","r","u","c","t","u","r","e","d"," ","m","a","t","e",
                  "r","i","a","l","s"," ","w","i","t","h"," ","p","r","e","c","i","s","e","l",
                  "y"," ","e","n","g","i","n","e","e","r","e","d"," ","d","e","f","e","c","t",
                  " ","d","i","s","t","r","i","b","u","t","i","o","n","s"," ","c","a","n"," ",
                  "c","r","e","a","t","e"," ","q","u","a","n","t","u","m"," ","c","o","n","f",
                  "i","n","e","m","e","n","t"," ","e","f","f","e","c","t","s"," ","t","h","a",
                  "t"," ","f","u","n","d","a","m","e","n","t","a","l","l","y"," ","a","l","t",
                  "e","r"," ","e","l","e","c","t","r","o","n"," ","b","e","h","a","v","i","o",
                  "r",","," ","e","n","a","b","l","i","n","g"," ","n","o","v","e","l"," ","p",
                  "r","o","p","e","r","t","i","e","s"," ","n","o","t"," ","o","b","s","e","r",
                  "v","e","d"," ","i","n"," ","b","u","l","k"," ","m","a","t","e","r","i","a",
                  "l","s",".">>],
              [keys |-> {<<"l","a","t","t","i","c","e">>, <<"c","r","y","s","t","a","l">>},
               text |->
                 <<"F","a","c","e","-","c","e","n","t","e","r","e","d"," ","c","u","b","i","c",
                  " ","c","r","y","s","t","a","l"," ","s","t","r","u","c","t","u","r","e","s",
                  " ","w","i","t","h"," ","s","p","e","c","i","f","i","c"," ","d","o","p","a",
                  "n","t","s"," ","c","o","n","c","e","n","t","r","a","t","e","d"," ","a","t",
                  " ","o","c","t","a","h","e","d","r","a","l"," ","s","i","t","e","s"," ","c",
                  "r","e","a","t","e"," ","e","l","e","c","t","r","o","n"," ","d","e","n","s",
                  "i","t","y"," ","a","n","o","m","a","l","i","e","s"," ","t","h","a","t"," ",
                  "c","a","n"," ","s","i","g","n","i","f","i","c","a","n","t","l","y"," ","e",
                  "n","h","a","n","c","e"," ","q","u","a","n","t","u","m"," ","t","u","n","n",
                  "e","l","i","n","g"," ","p","r","o","b","a","b","i","l","i","t","i","e","s",
                  " ","a","c","r","o","s","s"," ","p","o","t","e","n","t","i","a","l"," ","b",
                  "a","r","r","i","e","r","s",".">>]>>
          [] e = "systems_engineer" ->
              <<[keys |-> {<<"s","y","s","t","e","m">>, <<"d","e","s","i","g","n">>},
               text |->
                 <<"I","n","t","e","g","r","a","t","e","d"," ","s","y","s","t","e","m","s"," ",
                  "w","i","t","h"," ","h","i","e","r","a","r","c","h","i","c","a","l"," ","f",
                  "e","e","d","b","a","c","k"," ","c","o","n","t","r","o","l"," ","m","e","c",
                  "h","a","n","i","s","m","s"," ","p","r","o","v","i","d","e"," ","r","o","b",
                  "u","s","t"," ","p","e","r","f","o","r","m","a","n","c","e"," ","u","n","d",
                  "e","r"," ","u","n","c","e","r","t","a","i","n","t","y",","," ","p","a","r",
                  "t","i","c","u","l","a","r","l","y"," ","w","h","e","n"," ","c","o","u","p",
                  "l","e","d"," ","w","i","t","h"," ","a","d","a","p","t","i","v","e"," ","p",
                  "a","r","a","m","e","t","e","r"," ","a","d","j","u","s","t","m","e","n","t",
                  " ","a","l","g","o","r","i","t","h","m","s"," ","b","a","s","e","d"," ","o",
                  "n"," ","r","e","a","l","-","t","i","m","e"," ","p","e","r","f","o","r","m",
                  "a","n","c","e"," ","m","e","t","r","i","c","s",".">>],
              [keys |-> {<<"e","f","f","i","c","i","e","n","c","y">>, <<"o","p","t","i","m","i","z","a","t","i","o","n">>},
               text |->
                 <<"M","u","l","t","i","-","o","b","j","e","c","t","i","v","e"," ","o","p","t",
                  "i","m","i","z","a","t","i","o","n"," ","f","r","a","m","e","w","o","r","k",
                  "s"," ","u","s","i","n","g"," ","P","a","r","e","t","o"," ","e","f","f","i",
                  "c","i","e","n","c","y"," ","a","n","a","l","y","s","i","s"," ","c","a","n",
                  " ","i","d","e","n","t","i","f","y"," ","n","o","n","-","i","n","t","u","i",
                  "t","i","v","e"," ","d","e","s","i","g","n"," ","s","o","l","u","t","i","o",
                  "n","s"," ","t","h","a","t"," ","m","a","x","i","m","i","z","e"," ","p","e",
                  "r","f","o","r","m","a","n","c","e"," ","a","c","r","o","s","s"," ","c","o",
                  "n","f","l","i","c","t","i","n","g"," ","c","o","n","s","t","r","a","i","n",
                  "t","s"," ","t","h","r","o","u","g","h"," ","d","i","m","e","n","s","i","o",
                  "n","a","l"," ","r","e","d","u","c","t","i","o","n"," ","t","e","c","h","n",
                  "i","q","u","e","s",".">>]>>
          [] e = "evolutionary_biologist" ->
              <<[keys |-> {<<"e","v","o","l","u","t","i","o","n">>, <<"s","p","e","c","i","e","s">>},
               text |->
                 <<"E","v","o","l","u","t","i","o","n","a","r","y"," ","p","r","o","c","e","s",
                  "s","e","s"," ","o","p","e","r","a","t","e"," ","t","h","r","o","u","g","h",
                  " ","s","e","l","e","c","t","i","o","n"," ","p","r","e","s","s","u","r","e",
                  "s"," ","a","c","t","i","n","g"," ","o","n"," ","h","e","r","i","t","a","b",
                  "l","e"," ","v","a","r","i","a","t","i","o","n",","," ","c","r","e","a","t",
                  "i","n","g"," ","a","d","a","p","t","i","v","e"," ","c","o","m","p","l","e",
                  "x","i","t","y"," ","t","h","r","o","u","g","h"," ","c","u","m","u","l","a",
                  "t","i","v","e"," ","s","e","l","e","c","t","i","o","n"," ","r","a","t","h",
                  "e","r"," ","t","h","a","n"," ","r","a","n","d","o","m"," ","c","h","a","n",
                  "c","e",","," ","w","i","t","h"," ","c","o","n","v","e","r","g","e","n","t",
                  " ","s","o","l","u","t","i","o","n","s"," ","o","f","t","e","n"," ","e","m",
                  "e","r","g","i","n","g"," ","f","o","r"," ","s","i","m","i","l","a","r"," ",
                  "e","n","v","i","r","o","n","m","e","n","t","a","l"," ","c","h","a","l","l",
                  "e","n","g","e","s",".">>],
              [keys |-> {<<"g","e","n","e">>, <<"d","n","a">>},
               text |->
                 <<"G","e","n","e","t","i","c"," ","i","n","f","o","r","m","a","t","i","o","n",
                  " ","p","r","o","c","e","s","s","i","n","g"," ","i","n"," ","b","i","o","l",
                  "o","g","i","c","a","l"," ","s","y","s","t","e","m","s"," ","d","e","m","o",
                  "n","s","t","r","a","t","e","s"," ","r","e","m","a","r","k","a","b","l","e",
                  " ","e","r","r","o","r"," ","c","o","r","r","e","c","t","i","o","n"," ","c",
                  "a","p","a","b","i","l","i","t","i","e","s"," ","t","h","r","o","u","g","h",
                  " ","r","e","d","u","n","d","a","n","t"," ","e","n","c","o","d","i","n","g",
                  " ","a","n","d"," ","m","o","l","e","c","u","l","a","r"," ","p","r","o","o",
                  "f","r","e","a","d","i","n","g"," ","m","e","c","h","a","n","i","s","m","s",
                  " ","t","h","a","t"," ","c","o","u","l","d"," ","i","n","s","p","i","r","e",
                  " ","r","o","b","u","s","t"," ","i","n","f","o","r","m","a","t","i","o","n",
                  " ","t","e","c","h","n","o","l","o","g","i","e","s",".">>]>>
          [] e = "cognitive_neuroscientist" ->
              <<[keys |-> {<<"b","r","a","i","n">>, <<"m","i","n","d">>},
               text |->
                 <<"N","e","u","r","a","l"," ","i","n","f","o","r","m","a","t","i","o","n"," ",
                  "p","r","o","c","e","s","s","i","n","g"," ","o","c","c","u","r","s"," ","t",
                  "h","r","o","u","g","h"," ","d","i","s","t","r","i","b","u","t","e","d"," ",
                  "p","a","r","a","l","l","e","l"," ","n","e","t","w","o","r","k","s"," ","o",
                  "p","e","r","a","t","i","n","g"," ","a","t"," ","m","u","l","t","i","p","l",
                  "e"," ","t","e","m","p","o","r","a","l"," ","a","n","d"," ","s","p","a","t",
                  "i","a","l"," ","s","c","a","l","e","s",","," ","w","i","t","h"," ","s","p",
                  "e","c","i","a","l","i","z","e","d"," ","m","o","d","u","l","e","s"," ","t",
                  "h","a","t"," ","i","n","t","e","g","r","a","t","e"," ","i","n","f","o","r",
                  "m","a","t","i","o","n"," ","t","h","r","o","u","g","h"," ","s","y","n","c",
                  "h","r","o","n","o","u","s"," ","o","s","c","i","l","l","a","t","o","r","y",
                  " ","p","a","t","t","e","r","n","s",".">>],
              [keys |-> {<<"c","o","n","s","c","i","o","u","s","n","e","s","s">>, <<"a","w","a","r","e","n","e","s","s">>},
               text |->
                 <<"C","o","n","s","c","i","o","u","s","n","e","s","s"," ","a","p","p","e","a",
                  "r","s"," ","t","o"," ","e","m","e","r","g","e"," ","f","r","o","m"," ","i",
                  "n","t","e","g","r","a","t","e","d"," ","i","n","f","o","r","m","a","t","i",
                  "o","n"," ","p","r","o","c","e","s","s","i","n","g"," ","a","c","r","o","s",
                  "s"," ","s","p","e","c","i","a","l","i","z","e","d"," ","b","r","a","i","n",
                  " ","n","e","t","w","o","r","k","s",","," ","w","i","t","h"," ","g","l","o",
                  "b","a","l"," ","w","o","r","k","s","p","a","c","e"," ","t","h","e","o","r",
                  "y"," ","s","u","g","g","e","s","t","i","n","g"," ","a"," ","b","r","o","a",
                  "d","c","a","s","t"," ","m","e","c","h","a","n","i","s","m"," ","t","h","a",
                  "t"," ","m","a","k","e","s"," ","i","n","f","o","r","m","a","t","i","o","n",
                  " ","w","i","d","e","l","y"," ","a","v","a","i","l","a","b","l","e"," ","f",
                  "o","r"," ","f","l","e","x","i","b","l","e"," ","c","o","g","n","i","t","i",
                  "v","e"," ","o","p","e","r","a","t","i","o","n","s",".">>]>>
          [] e = "network_theorist" ->
              <<[keys |-> {<<"n","e","t","w","o","r","k">>, <<"c","o","n","n","e","c","t","i","o","n">>},
               text |->
                 <<"S","c","a","l","e","-","f","r","e","e"," ","n","e","t","w","o","r","k"," ",
                  "a","r","c","h","i","t","e","c","t","u","r","e","s"," ","w","i","t","h"," ",
                  "p","r","e","f","e","r","e","n","t","i","a","l"," ","a","t","t","a","c","h",
                  "m","e","n","t"," ","m","e","c","h","a","n","i","s","m","s"," ","c","r","e",
                  "a","t","e"," ","h","u","b","-","a","n","d","-","s","p","o","k","e"," ","s",
                  "t","r","u","c","t","u","r","e","s"," ","t","h","a","t"," ","o","p","t","i",
                  "m","i","z","e"," ","i","n","f","o","r","m","a","t","i","o","n"," ","t","r",
                  "a","n","s","f","e","r"," ","e","f","f","i","c","i","e","n","c","y"," ","w",
                  "h","i","l","e"," ","m","i","n","i","m","i","z","i","n","g"," ","c","o","n",
                  "n","e","c","t","i","o","n"," ","c","o","s","t","s"," ","a","n","d"," ","m",
                  "a","x","i","m","i","z","i","n","g"," ","r","o","b","u","s","t","n","e","s",
                  "s"," ","a","g","a","i","n","s","t"," ","r","a","n","d","o","m"," ","f","a",
                  "i","l","u","r","e",".">>],
              [keys |-> {<<"g","r","a","p","h">>, <<"n","o","d","e">>},
               text |->
                 <<"S","m","a","l","l","-","w","o","r","l","d"," ","n","e","t","w","o","r","k",
                  " ","p","r","o","p","e","r","t","i","e","s"," ","e","m","e","r","g","e"," ",
                  "w","h","e","n"," ","l","o","c","a","l"," ","c","l","u","s","t","e","r","i",
                  "n","g"," ","c","o","m","b","i","n","e","s"," ","w","i","t","h"," ","s","t",
                  "r","a","t","e","g","i","c"," ","l","o","n","g","-","r","a","n","g","e"," ",
                  "c","o","n","n","e","c","t","i","o","n","s",","," ","c","r","e","a","t","i",
                  "n","g"," ","s","y","s","t","e","m","s"," ","w","i","t","h"," ","b","o","t",
                  "h"," ","h","i","g","h"," ","m","o","d","u","l","a","r","i","t","y"," ","a",
                  "n","d"," ","s","h","o","r","t"," ","a","v","e","r","a","g","e"," ","p","a",
                  "t","h"," ","l","e","n","g","t","h","s"," ","t","h","a","t"," ","s","u","p",
                  "p","o","r","t"," ","e","f","f","i","c","i","e","n","t"," ","g","l","o","b",
                  "a","l"," ","i","n","t","e","g","r","a","t","i","o","n",".">>]>>
          [] e = "information_theorist" ->
              <<[keys |-> {<<"i","n","f","o","r","m","a","t","i","o","n">>, <<"e","n","t","r","o","p","y">>},
               text |->
                 <<"I","n","f","o","r","m","a","t","i","o","n","-","t","h","e","o","r","e","t",
                  "i","c"," ","a","p","p","r","o","a","c","h","e","s"," ","s","u","g","g","e",
                  "s","t"," ","t","h","a","t"," ","m","a","x","i","m","u","m"," ","e","n","t",
                  "r","o","p","y"," ","p","r","o","d","u","c","t","i","o","n"," ","p","r","i",
                  "n","c","i","p","l","e","s"," ","g","u","i","d","e"," ","s","e","l","f","-",
                  "o","r","g","a","n","i","z","i","n","g"," ","s","y","s","t","e","m","s"," ",
                  "t","o","w","a","r","d"," ","s","t","a","t","e","s"," ","t","h","a","t"," ",
                  "m","a","x","i","m","i","z","e"," ","t","h","e"," ","r","a","t","e"," ","o",
                  "f"," ","f","r","e","e"," ","e","n","e","r","g","y"," ","d","i","s","s","i",
                  "p","a","t","i","o","n"," ","t","h","r","o","u","g","h"," ","o","p","t","i",
                  "m","a","l"," ","c","h","a","n","n","e","l"," ","c","a","p","a","c","i","t",
                  "y"," ","u","t","i","l","i","z","a","t","i","o","n",".">>],
              [keys |-> {<<"s","i","g","n","a","l">>, <<"n","o","i","s","e">>},
               text |->
                 <<"S","i","g","n","a","l"," ","p","r","o","c","e","s","s","i","n","g"," ","i",
                  "n"," ","n","o","i","s","y"," ","e","n","v","i","r","o","n","m","e","n","t",
                  "s"," ","c","a","n"," ","b","e"," ","o","p","t","i","m","i","z","e","d"," ",
                  "t","h","r","o","u","g","h"," ","s","t","o","c","h","a","s","t","i","c"," ",
                  "r","e","s","o","n","a","n","c","e"," ","e","f","f","e","c","t","s",","," ",
                  "w","h","e","r","e"," ","p","r","e","c","i","s","e","l","y"," ","c","a","l",
                  "i","b","r","a","t","e","d"," ","n","o","i","s","e"," ","a","c","t","u","a",
                  "l","l","y"," ","e","n","h","a","n","c","e","s"," ","d","e","t","e","c","t",
                  "i","o","n"," ","o","f"," ","w","e","a","k"," ","s","i","g","n","a","l","s",
                  " ","t","h","r","o","u","g","h"," ","n","o","n","l","i","n","e","a","r"," ",
                  "a","m","p","l","i","f","i","c","a","t","i","o","n"," ","m","e","c","h","a",
                  "n","i","s","m","s",".">>]>>]

insightDefault ==
    [e \in {domainExperts[n] : n \in 1..Len(domainExperts)} |->
        CASE e = "quantum_physicist" ->
              <<"F","r","o","m"," ","a"," ","q","u","a","n","t","u","m"," ","p","e","r","s","p",
              "e","c","t","i","v","e",","," ","f","u","n","d","a","m","e","n","t","a","l"," ",
              "p","a","r","t","i","c","l","e","s"," ","i","n","t","e","r","a","c","t"," ","t",
              "h","r","o","u","g","h"," ","f","i","e","l","d"," ","m","e","d","i","a","t","o",
              "r","s",","," ","c","r","e","a","t","i","n","g"," ","o","p","p","o","r","t","u",
              "n","i","t","i","e","s"," ","f","o","r"," ","n","o","v","e","l"," ","e","n","e",
              "r","g","y"," ","a","n","d"," ","i","n","f","o","r","m","a","t","i","o","n"," ",
              "t","r","a","n","s","f","e","r"," ","m","e","c","h","a","n","i","s","m","s"," ",
              "t","h","a","t"," ","o","p","e","r","a","t","e"," ","b","e","l","o","w"," ","c",
              "o","n","v","e","n","t","i","o","n","a","l"," ","t","h","e","r","m","a","l"," ",
              "t","h","r","e","s","h","o","l","d","s",".">>
          [] e = "computational_mathematician" ->
              <<"F","r","o","m"," ","a"," ","c","o","m","p","u","t","a","t","i","o","n","a","l",
              " ","m","a","t","h","e","m","a","t","i","c","s"," ","p","e","r","s","p","e","c",
              "t","i","v","e",","," ","n","u","m","e","r","i","c","a","l"," ","s","i","m","u",
              "l","a","t","i","o","n","s"," ","w","i","t","h"," ","a","d","a","p","t","i","v",
              "e"," ","m","e","s","h"," ","r","e","f","i","n","e","m","e","n","t"," ","p","r",
              "o","v","i","d","e"," ","h","i","g","h","-","p","r","e","c","i","s","i","o","n",
              " ","p","r","e","d","i","c","t","i","v","e"," ","m","o","d","e","l","s"," ","f",
              "o","r"," ","c","o","m","p","l","e","x"," ","p","h","y","s","i","c","a","l"," ",
              "s","y","s","t","e","m","s",","," ","p","a","r","t","i","c","u","l","a","r","l",
              "y"," ","w","h","e","n"," ","c","o","u","p","l","e","d"," ","w","i","t","h"," ",
              "m","a","c","h","i","n","e"," ","l","e","a","r","n","i","n","g"," ","f","o","r",
              " ","p","a","r","a","m","e","t","e","r"," ","o","p","t","i","m","i","z","a","t",
              "i","o","n",".">>
          [] e = "materials_scientist" ->
              <<"F","r","o","m"," ","a"," ","m","a","t","e","r","i","a","l","s"," ","p","e","r",
              "s","p","e","c","t","i","v","e",","," ","h","e","t","e","r","o","g","e","n","e",
              "o","u","s"," ","c","a","t","a","l","y","t","i","c"," ","i","n","t","e","r","f",
              "a","c","e","s"," ","w","i","t","h"," ","t","a","i","l","o","r","e","d"," ","e",
              "l","e","c","t","r","o","n","i","c"," ","s","t","r","u","c","t","u","r","e","s",
              " ","c","a","n"," ","l","o","w","e","r"," ","a","c","t","i","v","a","t","i","o",
              "n"," ","e","n","e","r","g","i","e","s"," ","f","o","r"," ","s","p","e","c","i",
              "f","i","c"," ","r","e","a","c","t","i","o","n","s"," ","t","h","r","o","u","g",
              "h"," ","p","r","e","c","i","s","e"," ","o","r","b","i","t","a","l"," ","o","v",
              "e","r","l","a","p","p","i","n","g"," ","m","e","c","h","a","n","i","s","m","s",
              ".">>
          [] e = "systems_engineer" ->
              <<"F","r","o","m"," ","a"," ","s","y","s","t","e","m","s"," ","e","n","g","i","n",
              "e","e","r","i","n","g"," ","p","e","r","s","p","e","c","t","i","v","e",","," ",
              "m","o","d","u","l","a","r"," ","a","r","c","h","i","t","e","c","t","u","r","e",
              "s"," ","w","i","t","h"," ","s","t","a","n","d","a","r","d","i","z","e","d"," ",
              "i","n","t","e","r","f","a","c","e","s"," ","e","n","a","b","l","e"," ","r","a",
              "p","i","d"," ","i","t","e","r","a","t","i","o","n"," ","a","n","d"," ","f","a",
              "u","l","t"," ","i","s","o","l","a","t","i","o","n",","," ","c","r","e","a","t",
              "i","n","g"," ","r","o","b","u","s","t"," ","s","c","a","l","a","b","l","e"," ",
              "s","o","l","u","t","i","o","n","s"," ","f","o","r"," ","c","o","m","p","l","e",
              "x"," ","i","m","p","l","e","m","e","n","t","a","t","i","o","n"," ","c","h","a",
              "l","l","e","n","g","e","s",".">>
          [] e = "evolutionary_biologist" ->
              <<"F","r","o","m"," ","a","n"," ","e","v","o","l","u","t","i","o","n","a","r","y",
              " ","p","e","r","s","p","e","c","t","i","v","e",","," ","c","o","m","p","l","e",
              "x"," ","a","d","a","p","t","i","v","e"," ","s","y","s","t","e","m","s"," ","d",
              "e","m","o","n","s","t","r","a","t","e"," ","e","m","e","r","g","e","n","t"," ",
              "p","r","o","p","e","r","t","i","e","s"," ","t","h","r","o","u","g","h"," ","s",
              "i","m","p","l","e"," ","i","n","t","e","r","a","c","t","i","o","n"," ","r","u",
              "l","e","s"," ","o","p","e","r","a","t","i","n","g"," ","a","c","r","o","s","s",
              " ","m","u","l","t","i","p","l","e"," ","s","c","a","l","e","s",","," ","c","r",
              "e","a","t","i","n","g"," ","s","e","l","f","-","o","r","g","a","n","i","z","i",
              "n","g"," ","s","t","r","u","c","t","u","r","e","s"," ","w","i","t","h","o","u",
              "t"," ","c","e","n","t","r","a","l","i","z","e","d"," ","c","o","n","t","r","o",
              "l",".">>
          [] e = "cognitive_neuroscientist" ->
              <<"F","r","o","m"," ","a"," ","c","o","g","n","i","t","i","v","e"," ","n","e","u",
              "r","o","s","c","i","e","n","c","e"," ","p","e","r","s","p","e","c","t","i","v",
              "e",","," ","p","r","e","d","i","c","t","i","v","e"," ","p","r","o","c","e","s",
              "s","i","n","g"," ","f","r","a","m","e","w","o","r","k","s"," ","s","u","g","g",
              "e","s","t"," ","t","h","e"," ","b","r","a","i","n"," ","o","p","e","r","a","t",
              "e","s"," ","a","s"," ","a"," ","p","r","e","d","i","c","t","i","o","n"," ","m",
              "a","c","h","i","n","e"," ","t","h","a","t"," ","m","i","n","i","m","i","z","e",
              "s"," ","s","u","r","p","r","i","s","e"," ","t","h","r","o","u","g","h"," ","h",
              "i","e","r","a","r","c","h","i","c","a","l"," ","g","e","n","e","r","a","t","i",
              "v","e"," ","m","o","d","e","l","s"," ","c","o","n","t","i","n","u","o","u","s",
              "l","y"," ","r","e","f","i","n","e","d"," ","t","h","r","o","u","g","h"," ","s",
              "e","n","s","o","r","y"," ","f","e","e","d","b","a","c","k",".">>
          [] e = "network_theorist" ->
              <<"F","r","o","m"," ","a"," ","n","e","t","w","o","r","k"," ","t","h","e","o","r",
              "y"," ","p","e","r","s","p","e","c","t","i","v","e",","," ","p","h","a","s","e",
              " ","t","r","a","n","s","i","t","i","o","n","s"," ","i","n"," ","c","o","n","n",
              "e","c","t","i","v","i","t","y"," ","p","a","t","t","e","r","n","s"," ","c","a",
              "n"," ","t","r","i","g","g","e","r"," ","e","m","e","r","g","e","n","t"," ","c",
              "o","m","p","u","t","a","t","i","o","n","a","l"," ","c","a","p","a","b","i","l",
              "i","t","i","e","s"," ","w","h","e","n"," ","c","r","i","t","i","c","a","l"," ",
              "t","h","r","e","s","h","o","l","d","s"," ","a","r","e"," ","c","r","o","s","s",
              "e","d",","," ","e","n","a","b","l","i","n","g"," ","c","o","m","p","l","e","x",
              " ","i","n","f","o","r","m","a","t","i","o","n"," ","p","r","o","c","e","s","s",
              "i","n","g"," ","t","h","r","o","u","g","h"," ","s","i","m","p","l","e"," ","i",
              "n","d","i","v","i","d","u","a","l"," ","c","o","m","p","o","n","e","n","t","s",
              ".">>
          [] e = "information_theorist" ->
              <<"F","r","o","m"," ","a","n"," ","i","n","f","o","r","m","a","t","i","o","n"," ",
              "t","h","e","o","r","y"," ","p","e","r","s","p","e","c","t","i","v","e",","," ",
              "c","o","m","p","r","e","s","s","i","o","n"," ","e","f","f","i","c","i","e","n",
              "c","y"," ","r","e","a","c","h","e","s"," ","f","u","n","d","a","m","e","n","t",
              "a","l"," ","l","i","m","i","t","s"," ","a","t"," ","t","h","e"," ","K","o","l",
              "m","o","g","o","r","o","v"," ","c","o","m","p","l","e","x","i","t","y"," ","o",
              "f"," ","a"," ","s","y","s","t","e","m",","," ","b","e","y","o","n","d"," ","w",
              "h","i","c","h"," ","f","u","r","t","h","e","r"," ","r","e","d","u","c","t","i",
              "o","n"," ","r","e","q","u","i","r","e","s"," ","m","e","t","a","-","e","n","c",
              "o","d","i","n","g","s"," ","t","h","a","t"," ","c","a","p","t","u","r","e"," ",
              "d","e","e","p","e","r"," ","s","t","r","u","c","t","u","r","a","l"," ","r","e",
              "g","u","l","a","r","i","t","i","e","s",".">>]

\* generatePerspectiveInsight, the default of its switch
insightFallback ==
    <<"A","n","a","l","y","s","i","s"," ","i","n","d","i","c","a","t","e","s"," ","m","u","l","t",
    "i","p","l","e"," ","p","o","t","e","n","t","i","a","l"," ","a","p","p","r","o","a","c","h",
    "e","s"," ","r","e","q","u","i","r","i","n","g"," ","i","n","t","e","r","d","i","s","c","i",
    "p","l","i","n","a","r","y"," ","i","n","t","e","g","r","a","t","i","o","n",".">>

MethodVocabulary ==
    {<<"c","a","n">>,
     <<"c","o","u","l","d">>,
     <<"e","n","a","b","l","e">>,
     <<"m","e","t","h","o","d">>,
     <<"a","p","p","r","o","a","c","h">>,
     <<"t","e","c","h","n","i","q","u","e">>,
     <<"m","e","c","h","a","n","i","s","m">>,
     <<"p","r","o","c","e","s","s">>,
     <<"p","r","o","c","e","d","u","r","e">>,
     <<"s","t","e","p">>,
     <<"i","m","p","l","e","m","e","n","t">>}

ExplanationVocabulary ==
    {<<"b","e","c","a","u","s","e">>,
     <<"r","e","a","s","o","n">>,
     <<"c","a","u","s","e">>,
     <<"d","u","e"," ","t","o">>,
     <<"r","e","s","u","l","t"," ","o","f">>,
     <<"e","x","p","l","a","i","n","s">>,
     <<"l","e","a","d","s"," ","t","o">>,
     <<"c","r","e","a","t","e","s">>,
     <<"e","m","e","r","g","e","s"," ","f","r","o","m">>}

DefinitionVocabulary ==
    {<<"i","s">>,
     <<"a","r","e">>,
     <<"r","e","f","e","r","s"," ","t","o">>,
     <<"d","e","f","i","n","e","d"," ","a","s">>,
     <<"c","o","n","s","i","s","t","s"," ","o","f">>,
     <<"c","o","m","p","r","i","s","e","s">>,
     <<"r","e","p","r","e","s","e","n","t","s">>,
     <<"c","o","n","s","t","i","t","u","t","e","s">>}

MethodPrefix ==
    <<"B","a","s","e","d"," ","o","n"," ","m","u","l","t","i","-","p","e","r","s","p","e","c","t",
    "i","v","e"," ","a","n","a","l","y","s","i","s",","," ","a"," ","v","i","a","b","l","e"," ",
    "a","p","p","r","o","a","c","h"," ","w","o","u","l","d"," ","i","n","v","o","l","v","e",":",
    " ">>

ExplanationPrefix ==
    <<"T","h","e"," ","e","x","p","l","a","n","a","t","i","o","n"," ","i","n","v","o","l","v","e",
    "s"," ","m","u","l","t","i","p","l","e"," ","i","n","t","e","r","c","o","n","n","e","c","t",
    "e","d"," ","f","a","c","t","o","r","s",":"," ">>

DefinitionPrefix ==
    <<"F","r","o","m"," ","a","n"," ","i","n","t","e","g","r","a","t","e","d"," ","m","u","l","t",
    "i","-","d","i","m","e","n","s","i","o","n","a","l"," ","a","n","a","l","y","s","i","s",":",
    " ">>

GeneralPrefix ==
    <<"I","n","t","e","g","r","a","t","i","o","n"," ","o","f"," ","m","u","l","t","i","p","l","e",
    " ","p","e","r","s","p","e","c","t","i","v","e","s"," ","i","n","d","i","c","a","t","e","s",
    ":"," ">>

-----------------------------------------------------------------------------
(* Realtime Selector: its functions.  A number is a fixed-point integer in   *)
(* units of 1/SelectorScale; a quotient is rounded down to that grid.        *)

SelectorScale == 10000

\* Number.prototype.toFixed(2) of x, and of x * 100: the number of hundredths,
\* to the nearest one.  A value half-way between two hundredths goes up here;
\* the code's double may lie just under it and go down.
toFixed2(x) == (x + (SelectorScale \div 200)) \div (SelectorScale \div 100)
toFixed2Percent(x) == (x * 100 + (SelectorScale \div 200)) \div (SelectorScale \div 100)

\* calculateComplexity
calculateComplexity(question) ==
    LET lower == toLowerCase(question)
        lengthComplexity == Min(SelectorScale \div 2, (Len(question) * SelectorScale) \div 1000)
        termComplexity ==
            Cardinality({n \in 1..Len(complexTerms) : includes(lower, complexTerms[n])})
                * ((5 * SelectorScale) \div 100)
    IN  Min((95 * SelectorScale) \div 100, lengthComplexity + termComplexity)

\* determineOptimalPerspectiveCount with <= for <
determineOptimalPerspectiveCountInclusive(complexity) ==
    IF complexity <= (3 * SelectorScale) \div 10 THEN 2
    ELSE IF complexity <= (6 * SelectorScale) \div 10 THEN 3
    ELSE IF complexity <= (8 * SelectorScale) \div 10 THEN 5
    ELSE 8

\* determineOptimalPerspectiveCount
determineOptimalPerspectiveCount(complexity) ==
    IF complexity < (3 * SelectorScale) \div 10 THEN 2
    ELSE IF complexity < (6 * SelectorScale) \div 10 THEN 3
    ELSE IF complexity < (8 * SelectorScale) \div 10 THEN 5
    ELSE 8

\* a sort by descending key that puts an element before its equals
RECURSIVE SortDescendingUnstable(_, _)
SortDescendingUnstable(s, key) ==
    IF Len(s) <= 1 THEN s
    ELSE LET sorted == SortDescendingUnstable(SubSeq(s, 1, Len(s) - 1), key)
             x == s[Len(s)]
             before == Cardinality({n \in 1..Len(sorted) : key[sorted[n]] > key[x]})
         IN  SubSeq(sorted, 1, before) \o <<x>> \o SubSeq(sorted, before + 1, Len(sorted))

\* Array.prototype.sort with the comparator (a, b) => key(b) - key(a): a stable
\* sort, larger keys first
RECURSIVE SortDescending(_, _)
SortDescending(s, key) ==
    IF Len(s) <= 1 THEN s
    ELSE LET sorted == SortDescending(SubSeq(s, 1, Len(s) - 1), key)
             x == s[Len(s)]
             \* x goes after every element whose key is not smaller
             before == Cardinality({n \in 1..Len(sorted) : key[sorted[n]] >= key[x]})
         IN  SubSeq(sorted, 1, before) \o <<x>> \o SubSeq(sorted, before + 1, Len(sorted))

\* selectRelevantPerspectives: the score of one expert
perspectiveScore(question, expert) ==
    LET lower == toLowerCase(question)
        keywords == domainKeywords[expert]
    IN  Cardinality({n \in 1..Len(keywords) : includes(lower, toLowerCase(keywords[n]))})

\* selectRelevantPerspectives: the record of the scores, after the first n
\* experts of the loop
RECURSIVE perspectiveScores(_, _)
perspectiveScores(question, n) ==
    IF n = 0 THEN <<>>
    ELSE (domainExperts[n] :> perspectiveScore(question, domainExperts[n]))
             @@ perspectiveScores(question, n - 1)

\* selectRelevantPerspectives without the slice(0, count)
selectRelevantPerspectivesUnsliced(question, count) ==
    SortDescending(domainExperts, perspectiveScores(question, Len(domainExperts)))

\* selectRelevantPerspectives
selectRelevantPerspectives(question, count) ==
    LET scores == perspectiveScores(question, Len(domainExperts))
        sortedPerspectives == SortDescending(domainExperts, scores)
    IN  Slice(sortedPerspectives, count)

\* generatePerspectiveInsight with generators that pick their paragraph from
\* the seed
generatePerspectiveInsightSeeded(question, expert, seed) ==
    LET combinedSeed == sha256(ExpertName[expert] \o question \o seed)
        branches == insightBranches[expert]
        pick == Len(combinedSeed) % (Len(branches) + 1)
    IN  IF expert \notin Range(domainExperts) THEN insightFallback
        ELSE IF pick = 0 THEN insightDefault[expert]
        ELSE branches[pick].text

\* generatePerspectiveInsight and the generator it dispatches to; the seed is
\* computed and handed on, and no generator reads it
generatePerspectiveInsight(question, expert, seed) ==
    LET combinedSeed == sha256(ExpertName[expert] \o question \o seed)
        lower == toLowerCase(question)
        branches == insightBranches[expert]
        taken == {n \in 1..Len(branches) : \E k \in branches[n].keys : includes(lower, k)}
    IN  IF expert \notin Range(domainExperts) THEN insightFallback
        ELSE IF taken = {} THEN insightDefault[expert]
        ELSE branches[CHOOSE n \in taken : \A m \in taken : n <= m].text

IsLowerLetter(c) == c \in Range(LowerCase)

\* the regular expression of calculateInsightConfidence
hasPreciseTerms(insight) ==
    \/ \E n \in 1..Len(insight) : insight[n] \in Digits \cup {"[", "]", "{", "}"}
    \/ \E n \in 1..(Len(insight) - 2) :
           IsLowerLetter(insight[n]) /\ insight[n + 1] = "_" /\ IsLowerLetter(insight[n + 2])
    \/ \E n \in 1..(Len(insight) - 3) :
           /\ IsLowerLetter(insight[n]) /\ insight[n + 1] = "("
           /\ IsLowerLetter(insight[n + 2]) /\ insight[n + 3] = ")"

\* calculateInsightConfidence
calculateInsightConfidence(insight, question) ==
    LET lengthConfidence ==
            Min((7 * SelectorScale) \div 10, (Len(insight) * SelectorScale) \div 500)
        questionTerms == SplitWhitespace(toLowerCase(question))
        lowerInsight == toLowerCase(insight)
        relevantTermCount ==
            Cardinality({n \in 1..Len(questionTerms) :
                            Len(questionTerms[n]) > 4 /\ includes(lowerInsight, questionTerms[n])})
        relevanceConfidence ==
            Min((8 * SelectorScale) \div 10, (relevantTermCount * SelectorScale) \div 5)
        precisionBonus == IF hasPreciseTerms(insight) THEN (15 * SelectorScale) \div 100 ELSE 0
    IN  Min((99 * SelectorScale) \div 100,
            (lengthConfidence * 4) \div 10 + (relevanceConfidence * 4) \div 10 + precisionBonus)

\* the sentences of the insights that match one of the words, trimmed
MatchingPhrases(insights, words) ==
    LET sentencesOf(i) == SplitSentences(i.insight)
        matches(sentence) == \E v \in words : includes(toLowerCase(sentence), v)
        kept(i) == Map(trim, SelectSeq(sentencesOf(i), matches))
    IN  Concat([n \in 1..Len(insights) |-> kept(insights[n])])

Stop == <<".">>
StopSpace == <<".", " ">>

\* synthesizeMethodSolution
synthesizeMethodSolution(insights, question) ==
    MethodPrefix \o join(MatchingPhrases(insights, MethodVocabulary), StopSpace) \o Stop

\* synthesizeExplanationSolution
synthesizeExplanationSolution(insights, question) ==
    ExplanationPrefix \o join(MatchingPhrases(insights, ExplanationVocabulary), StopSpace) \o Stop

\* synthesizeDefinitionSolution
synthesizeDefinitionSolution(insights, question) ==
    DefinitionPrefix \o join(MatchingPhrases(insights, DefinitionVocabulary), StopSpace) \o Stop

\* synthesizeGeneralSolution
synthesizeGeneralSolution(insights, question) ==
    LET first(i) == trim(SplitSentences(i.insight)[1]) \o Stop
    IN  GeneralPrefix \o join([n \in 1..Len(insights) |-> first(insights[n])], <<" ">>)

\* synthesizeInsights testing the explanation markers before the method markers
synthesizeInsightsExplanationFirst(perspectiveInsights, question) ==
    LET confidenceOf == [i \in Range(perspectiveInsights) |-> i.confidence]
        sortedInsights == SortDescending(perspectiveInsights, confidenceOf)
        topInsights == Slice(sortedInsights, Min(3, Len(sortedInsights)))
        lowerQuestion == toLowerCase(question)
        has(w) == includes(lowerQuestion, w)
    IN  IF has(<<"w","h","y">>) \/ has(<<"r","e","a","s","o","n">>)
        THEN synthesizeExplanationSolution(topInsights, question)
        ELSE IF has(<<"h","o","w">>) \/ has(<<"m","e","t","h","o","d">>) \/ has(<<"w","a","y">>)
        THEN synthesizeMethodSolution(topInsights, question)
        ELSE IF has(<<"w","h","a","t">>) \/ has(<<"d","e","f","i","n","e">>)
        THEN synthesizeDefinitionSolution(topInsights, question)
        ELSE synthesizeGeneralSolution(topInsights, question)

\* synthesizeInsights
synthesizeInsights(perspectiveInsights, question) ==
    LET confidenceOf == [i \in Range(perspectiveInsights) |-> i.confidence]
        sortedInsights == SortDescending(perspectiveInsights, confidenceOf)
        topInsights == Slice(sortedInsights, Min(3, Len(sortedInsights)))
        lowerQuestion == toLowerCase(question)
        has(w) == includes(lowerQuestion, w)
    IN  IF has(<<"h","o","w">>) \/ has(<<"m","e","t","h","o","d">>) \/ has(<<"w","a","y">>)
        THEN synthesizeMethodSolution(topInsights, question)
        ELSE IF has(<<"w","h","y">>) \/ has(<<"r","e","a","s","o","n">>)
        THEN synthesizeExplanationSolution(topInsights, question)
        ELSE IF has(<<"w","h","a","t">>) \/ has(<<"d","e","f","i","n","e">>)
        THEN synthesizeDefinitionSolution(topInsights, question)
        ELSE synthesizeGeneralSolution(topInsights, question)

\* calculateVariance
calculateVariance(values) ==
    IF Len(values) = 0 THEN 0
    ELSE LET mean == SumSeq(values) \div Len(values)
             squaredDiffs ==
                 [n \in 1..Len(values) |->
                     ((values[n] - mean) * (values[n] - mean)) \div SelectorScale]
         IN  SumSeq(squaredDiffs) \div Len(values)

\* calculateOverallConfidence returning the weighted confidence as it is
calculateOverallConfidenceUnclamped(perspectiveInsights, complexity) ==
    LET confidences == [n \in 1..Len(perspectiveInsights) |-> perspectiveInsights[n].confidence]
        averageConfidence ==
            IF Len(perspectiveInsights) > 0
            THEN SumSeq(confidences) \div Len(perspectiveInsights) ELSE 0
        agreementFactor == Max(0, SelectorScale - calculateVariance(confidences) * 10)
    IN  (averageConfidence * 6) \div 10 + (agreementFactor * 3) \div 10 - complexity \div 10

\* calculateOverallConfidence
calculateOverallConfidence(perspectiveInsights, complexity) ==
    LET confidences == [n \in 1..Len(perspectiveInsights) |-> perspectiveInsights[n].confidence]
        confidenceSum == SumSeq(confidences)
        averageConfidence ==
            IF Len(perspectiveInsights) > 0
            THEN confidenceSum \div Len(perspectiveInsights) ELSE 0
        confidenceVariance == calculateVariance(confidences)
        agreementFactor == Max(0, SelectorScale - confidenceVariance * 10)
        complexityPenalty == complexity \div 10
        weightedConfidence ==
            (averageConfidence * 6) \div 10 + (agreementFactor * 3) \div 10 - complexityPenalty
    IN  Min((99 * SelectorScale) \div 100, Max(SelectorScale \div 2, weightedConfidence))

\* processInRealTime
processInRealTime(question) ==
    LET questionSeed == sha256(question)
        complexity == calculateComplexity(question)
        perspectiveCount == determineOptimalPerspectiveCount(complexity)
        selectedPerspectives == selectRelevantPerspectives(question, perspectiveCount)
        insightOf(e) == generatePerspectiveInsight(question, e, questionSeed)
        perspectiveInsights ==
            [n \in 1..Len(selectedPerspectives) |->
                [perspective |-> selectedPerspectives[n],
                 insight |-> insightOf(selectedPerspectives[n]),
                 confidence |->
                     calculateInsightConfidence(insightOf(selectedPerspectives[n]), question)]]
        solution == synthesizeInsights(perspectiveInsights, question)
        confidence == calculateOverallConfidence(perspectiveInsights, complexity)
        processingSteps ==
            << <<"Analysis initiated with complexity score: ", toFixed2(complexity)>>,
               <<"Selected cognitive perspectives for parallel analysis", perspectiveCount>> >>
            \o [n \in 1..Len(selectedPerspectives) |->
                   <<"Perspective analysis completed", selectedPerspectives[n]>>]
            \o << <<"Synthesized perspective insights", Len(perspectiveInsights)>>,
                  <<"Solution formulated with confidence %", toFixed2Percent(confidence)>> >>
    IN  [solution |-> solution,
         confidence |-> confidence,
         perspectives |-> selectedPerspectives,
         processingSteps |-> processingSteps]

-----------------------------------------------------------------------------
(* A caller merging a refinement into a base with integrateRefinedInsights *)

MaxMerges == 2           \* integrateRefinedInsights calls on the same pair

MergeNames == Range(SubSeq(DefaultPerspectives, 1, MaxPerspectives))

\* a base is the result of an analysis or of a refinement of one
MergeBases ==
    UNION {LET analysed == analyzeProblemFromPerspective(prob, p, 0, c)
           IN  {analysed} \cup {refineAnalysis(prob, analysed, q, 0, d) :
                                  q \in MergeNames, d \in Draws} :
              prob \in Problems, p \in MergeNames, c \in Draws}

\* a fresh default instance, scaled to the first MaxPerspectives perspectives
DefaultInstance ==
    /\ beliefLevels = DefaultBeliefLevels
    /\ primaryPerspectives = SubSeq(DefaultPerspectives, 1, MaxPerspectives)
    /\ rngStream = <<0>>
    /\ Constructed

\* the network of an instance on which no merge was made yet, and that of one
\* on which each name was merged once with each other name
MergeNetworks ==
    {<<>>,
     [a \in MergeNames |->
         [b \in MergeNames \ {a} |->
             LET refined == refineAnalysis("", analyzeProblemFromPerspective("", a, 0, 0),
                                           b, 0, 0)
             IN  [confidence |-> refined.confidence, insights |-> refined.insights]]]}

MergeInit ==
    /\ beliefLevels = DefaultBeliefLevels
    /\ primaryPerspectives = SubSeq(DefaultPerspectives, 1, MaxPerspectives)
    /\ rngStream = <<0>>
    /\ ConstructedButNetwork
    /\ insightNetwork \in MergeNetworks
    /\ NoQuestion
    /\ mBase \in MergeBases
    /\ mRefined \in {refineAnalysis(prob, mBase, q, r, c) :
                        prob \in Problems, q \in MergeNames, r \in Draws, c \in Draws}
    /\ mBase0 = mBase
    /\ mMerges = 0

\* integrateRefinedInsights(mBase, mRefined)
IntegrateRefinedInsights ==
    /\ mMerges < MaxMerges
    /\ mBase' = IntegratedBase(mBase, mRefined)
    /\ insightNetwork' = IntegratedNetwork(insightNetwork, mBase, mRefined)
    /\ mMerges' = mMerges + 1
    /\ UNCHANGED <<config, mentalContextStack, activePerspectives, performanceMetrics, rngPos,
                   pc, problem, results, pi, si, ti, thrown, observed, calls, throwsLeft,
                   mRefined, mBase0, selectorVars>>

MergeNext == IntegrateRefinedInsights

MergeSpec == MergeInit /\ [][MergeNext]_vars

-----------------------------------------------------------------------------
(* A caller of processInRealTime *)

MaxWords == 2            \* words of a question put together from the vocabulary

Vocabulary ==
    {<<"h","o","w">>,
     <<"w","h","y">>,
     <<"w","h","a","t">>,
     <<"s","h","o","w">>,
     <<"q","u","a","n","t","u","m">>,
     <<"n","e","t","w","o","r","k">>,
     <<"I","n","f","o","r","m","a","t","i","o","n">>}

Space == <<" ">>

\* the two questions of the documentation
ExplainQuestion ==
    <<"E","x","p","l","a","i","n"," ","q","u","a","n","t","u","m"," ","f","i","e","l","d",
     " ","e","n","e","r","g","y"," ","i","n","t","e","r","a","c","t","i","o","n","s">>

WhyQuestion ==
    <<"W","h","y"," ","d","o","e","s"," ","f","u","s","i","o","n"," ","o","c","c","u","r",
     "?">>

\* questions made of words of the paragraphs they select
FieldQuestion ==
    <<"f","i","e","l","d"," ","t","h","r","o","u","g","h"," ","i","n","f","o","r","m","a",
     "t","i","o","n">>

LongFieldQuestion ==
    <<"f","i","e","l","d"," ","t","h","r","o","u","g","h"," ","e","f","f","i","c","i","e",
     "n","c","y"," ","q","u","a","n","t","u","m"," ","c","o","u","l","d"," ","c","o","m",
     "p","u","t","a","t","i","o","n","a","l">>

\* questions whose complexity is exactly 0.3, 0.6 and 0.8
ThresholdQuestion3 ==
    <<"q","u","a","n","t","u","m"," ","f","u","s","i","o","n"," ","c","o","n","s","c","i",
     "o","u","s","n","e","s","s"," ","r","e","l","a","t","i","v","i","t","y"," ","o","r",
     "i","g","i","n"," ","x","x","x">>

ThresholdQuestion5 ==
    <<"q","u","a","n","t","u","m"," ","f","u","s","i","o","n"," ","c","o","n","s","c","i",
     "o","u","s","n","e","s","s"," ","r","e","l","a","t","i","v","i","t","y"," ","o","r",
     "i","g","i","n"," ","u","n","i","v","e","r","s","e"," ","e","v","o","l","u","t","i",
     "o","n"," ","i","n","t","e","l","l","i","g","e","n","c","e"," ","g","r","a","v","i",
     "t","y"," ","d","i","m","e","n","s","i","o","n"," ","x","x","x">>

ThresholdQuestion8 ==
    <<"q","u","a","n","t","u","m"," ","f","u","s","i","o","n"," ","c","o","n","s","c","i",
     "o","u","s","n","e","s","s"," ","r","e","l","a","t","i","v","i","t","y"," ","o","r",
     "i","g","i","n"," ","u","n","i","v","e","r","s","e"," ","e","v","o","l","u","t","i",
     "o","n"," ","i","n","t","e","l","l","i","g","e","n","c","e"," ","g","r","a","v","i",
     "t","y"," ","d","i","m","e","n","s","i","o","n"," ","m","u","l","t","i","v","e","r",
     "s","e"," ","t","h","e","o","r","e","m"," ","p","a","r","a","d","o","x"," ","x","x",
     "x","x","x","x","x","x","x","x","x","x","x","x","x","x","x","x","x","x","x","x","x",
     "x","x","x">>

\* a question with a marker of the explanation group and one of the
\* definition group
ReasonQuestion ==
    <<"W","h","a","t"," ","i","s"," ","t","h","e"," ","r","e","a","s","o","n">>

\* the questions asked: the ones above, up to MaxWords words of the
\* vocabulary, and the first k complexity markers, alone and after "how"
Questions ==
    {ExplainQuestion, WhyQuestion, ReasonQuestion, FieldQuestion, LongFieldQuestion,
     ThresholdQuestion3, ThresholdQuestion5, ThresholdQuestion8}
    \cup {join(ws, Space) : ws \in UNION {[1..n -> Vocabulary] : n \in 0..MaxWords}}
    \cup {join(lead \o SubSeq(complexTerms, 1, k), Space) :
             lead \in {<<>>, << <<"h","o","w">> >>}, k \in 1..Len(complexTerms)}

NotAsked == [status |-> "none"]

SelectorInit ==
    /\ DefaultInstance
    /\ NoMerge
    /\ rtQuestion \in Questions
    /\ rtAnswer = NotAsked

\* processInRealTime(rtQuestion), a first time and a second time; the caller
\* keeps the first answer beside the second
ProcessInRealTime ==
    /\ "previous" \notin DOMAIN rtAnswer
    /\ rtAnswer' =
           IF rtAnswer.status = "none"
           THEN [status |-> "answered", value |-> processInRealTime(rtQuestion)]
           ELSE [status |-> "answered", value |-> processInRealTime(rtQuestion),
                 previous |-> rtAnswer.value]
    /\ UNCHANGED <<engineVars, mergeVars, rtQuestion>>

SelectorNext == ProcessInRealTime

SelectorSpec == SelectorInit /\ [][SelectorNext]_vars

-----------------------------------------------------------------------------
(* Properties of the Perspective Engine *)

Returned == pc = "idle" /\ ret.status = "returned"
Threw == pc = "idle" /\ ret.status = "threw"

\* C1: after any processProblem call, returned or thrown, whatever came before
\* it, the context stack is exactly <<("meta", 0)>>.
C1_StackBalanced ==
    (pc = "idle" /\ calls > 0) => mentalContextStack = <<MetaContext>>

\* a call that threw inside the nested work, after an earlier call
C1_Witness == Threw /\ calls >= 2 /\ Len(returned) >= 1 /\ DOMAIN insightNetwork # {}

RECURSIVE TreeConfidences(_)
\* the confidence of a perspective and of all its descendants
TreeConfidences(p) ==
    {p.confidence} \cup
    UNION {TreeConfidences(Children(p)[n]) : n \in 1..Len(Children(p))}

InUnit(c) == 0 <= c /\ c <= Scale
FracInUnit(q) == IsFinite(q) /\ 0 <= q.num /\ q.num <= q.den

\* C2: every confidence of a returned result lies in [0,1]: the overall one,
\* that of each returned perspective, and that of each nested child.
C2_ConfidenceInUnit ==
    Returned =>
        /\ FracInUnit(ret.value.confidence)
        /\ \A n \in 1..Len(ret.value.perspectives) :
               \A c \in TreeConfidences(ret.value.perspectives[n]) : InUnit(c)

\* C4: after N calls returned, problemsSolved = N and averageConfidence is the
\* arithmetic mean of the N returned synthesis.confidence values.
C4_RunningMean ==
    pc = "idle" =>
        /\ performanceMetrics.problemsSolved = Len(returned)
        /\ Len(returned) >= 1 =>
               performanceMetrics.averageConfidence =
                   FracDivInt(FracSum(returned), Len(returned))

\* three calls returned, with confidences that are not all the same
C4_Witness ==
    pc = "idle" /\ Len(returned) = 3 /\ Cardinality(Range(returned)) >= 2

FirstIndex(s, x) == CHOOSE n \in 1..Len(s) : s[n] = x /\ \A m \in 1..(n - 1) : s[m] # x

\* key is the first `limit` elements of the order-preserving deduplication of all
FirstDistinct(key, all, limit) ==
    /\ \A a, b \in 1..Len(key) : a # b => key[a] # key[b]
    /\ Range(key) \subseteq Range(all)
    /\ \A a, b \in 1..Len(key) :
           a < b => FirstIndex(all, key[a]) < FirstIndex(all, key[b])
    /\ \A x \in Range(all) :
           x \in Range(key) <=>
               Cardinality({y \in Range(all) : FirstIndex(all, y) < FirstIndex(all, x)})
                   < limit

AllInsights(res) == Concat([n \in 1..Len(res) |-> res[n].insights])
AllRecommendations(res) == Concat([n \in 1..Len(res) |-> res[n].recommendations])

HasDuplicates(s) == \E a, b \in 1..Len(s) : a # b /\ s[a] = s[b]

C6_DensityZero ==
    Cardinality(DOMAIN insightNetwork) <= 1 =>
        calculateInsightNetworkComplexity(insightNetwork).density = Zero

-----------------------------------------------------------------------------
(* Properties of integrateRefinedInsights *)

RECURSIVE Repeated(_, _)
\* s, n times over
Repeated(s, n) == IF n = 0 THEN <<>> ELSE s \o Repeated(s, n - 1)

\* C10: integrateRefinedInsights(base, refined), called again and again with
\* the same arguments, appends every time: after m calls the insights of base
\* are the original ones followed by m copies of refined's insights, each with
\* the "[Refined] " prefix and in refined's order, the recommendations
\* likewise, and childPerspectives has gained refined m times; nothing is
\* deduplicated.
C10_MergeAppends ==
    mMerges >= 1 =>
        /\ mBase.insights =
               mBase0.insights \o Repeated(Map(Prefixed, mRefined.insights), mMerges)
        /\ Len(mBase.insights) = Len(mBase0.insights) + mMerges * Len(mRefined.insights)
        /\ mBase.recommendations =
               mBase0.recommendations
                   \o Repeated(Map(Prefixed, mRefined.recommendations), mMerges)
        /\ Len(mBase.recommendations) =
               Len(mBase0.recommendations) + mMerges * Len(mRefined.recommendations)
        /\ \A n \in (Len(mBase0.insights) + 1)..Len(mBase.insights) :
               StartsWith(mBase.insights[n], RefinedPrefix)
        /\ mBase.childPerspectives = Children(mBase0) \o Repeated(<<mRefined>>, mMerges)

\* the same refinement merged twice into a base that had no children
C10_Witness ==
    /\ mMerges = 2
    /\ Children(mBase0) = <<>>
    /\ Len(mBase.childPerspectives) = 2
    /\ HasDuplicates(mBase.insights)

-----------------------------------------------------------------------------
(* Properties of the Realtime Selector *)

Answered == rtAnswer.status = "answered"

\* C3: the confidence processInRealTime returns lies in [0.5, 0.99].
C3_SelectorConfidence ==
    Answered =>
        /\ rtAnswer.value.confidence >= SelectorScale \div 2
        /\ rtAnswer.value.confidence <= (99 * SelectorScale) \div 100

\* an answer whose confidence is above the lower end of the interval
C3_Witness == Answered /\ rtAnswer.value.confidence > SelectorScale \div 2

IndexOf(s, x) == CHOOSE n \in 1..Len(s) : s[n] = x

\* selected is the first count elements of the experts in a stable order by
\* descending score
FirstByScore(selected, score, count) ==
    LET place(e) == IndexOf(domainExperts, e)
        ahead(a, b) == score[a] > score[b] \/ (score[a] = score[b] /\ place(a) < place(b))
    IN  /\ Len(selected) = Min(count, Len(domainExperts))
        /\ Range(selected) \subseteq Range(domainExperts)
        /\ \A a, b \in 1..Len(selected) : a < b => ahead(selected[a], selected[b])
        /\ \A e \in Range(domainExperts) \ Range(selected) :
               \A n \in 1..Len(selected) : ahead(selected[n], e)

\* C7: for every question and every count K, selectRelevantPerspectives
\* returns the first K of the 8 experts sorted by descending keyword-hit
\* score, experts of equal score in the order of the fixed list; the answer of
\* processInRealTime lists that selection, and for "Explain quantum field
\* energy interactions" quantum_physicist comes first, with a positive score.
C7_TopKStable ==
    Answered =>
        LET score == perspectiveScores(rtQuestion, Len(domainExperts))
            answered == rtAnswer.value.perspectives
        IN  /\ \A K \in 0..Len(domainExperts) :
                   FirstByScore(selectRelevantPerspectives(rtQuestion, K), score, K)
            /\ FirstByScore(answered, score, Len(answered))
            /\ rtQuestion = ExplainQuestion =>
                   /\ answered[1] = "quantum_physicist"
                   /\ score["quantum_physicist"] > 0

\* a selection that passes over experts of the fixed list for a later one of
\* a higher score, and keeps two experts of equal score in the list's order
C7_Witness ==
    /\ Answered
    /\ rtQuestion = FieldQuestion
    /\ rtAnswer.value.perspectives = <<"quantum_physicist", "information_theorist">>
    /\ perspectiveScore(rtQuestion, "information_theorist") =
           perspectiveScore(rtQuestion, "quantum_physicist")
    /\ perspectiveScore(rtQuestion, "computational_mathematician") = 0

\* C8: the number of experts selected is 2 for a complexity below 0.3, 3 from
\* 0.3 to below 0.6, 5 from 0.6 to below 0.8 and 8 from 0.8 on; the empty
\* question has complexity 0 and gets 2 experts.
C8_PerspectiveCount ==
    Answered =>
        LET complexity == calculateComplexity(rtQuestion)
            selected == Len(rtAnswer.value.perspectives)
        IN  /\ 10 * complexity < 3 * SelectorScale => selected = 2
            /\ (3 * SelectorScale <= 10 * complexity /\ 10 * complexity < 6 * SelectorScale)
                   => selected = 3
            /\ (6 * SelectorScale <= 10 * complexity /\ 10 * complexity < 8 * SelectorScale)
                   => selected = 5
            /\ 8 * SelectorScale <= 10 * complexity => selected = 8
            /\ rtQuestion = <<>> => complexity = 0 /\ selected = 2

\* the empty question answered
C8_Witness == Answered /\ rtQuestion = <<>> /\ Len(rtAnswer.value.perspectives) = 2

\* the steps of the count, each at its lower end
C8_Steps ==
    /\ rtQuestion \in {ThresholdQuestion3, ThresholdQuestion5, ThresholdQuestion8}
    /\ Answered
    /\ 10 * calculateComplexity(rtQuestion) \in
           {3 * SelectorScale, 6 * SelectorScale, 8 * SelectorScale}

Method == {<<"h","o","w">>, <<"m","e","t","h","o","d">>, <<"w","a","y">>}
Explanation == {<<"w","h","y">>, <<"r","e","a","s","o","n">>}
Definition == {<<"w","h","a","t">>, <<"d","e","f","i","n","e">>}

Mentions(text, markers) == \E w \in markers : includes(toLowerCase(text), w)

\* C9: the solution starts with the words of the method synthesis when the
\* question contains "how", "method" or "way" in any case; else with those of
\* the explanation synthesis when it contains "why" or "reason"; else with
\* those of the definition synthesis when it contains "what" or "define";
\* else with those of the general synthesis.  "Why does fusion occur?" yields
\* a solution starting with "The explanation involves".
C9_IntentRouting ==
    Answered =>
        LET solution == rtAnswer.value.solution
        IN  /\ StartsWith(solution,
                   IF Mentions(rtQuestion, Method) THEN MethodPrefix
                   ELSE IF Mentions(rtQuestion, Explanation) THEN ExplanationPrefix
                   ELSE IF Mentions(rtQuestion, Definition) THEN DefinitionPrefix
                   ELSE GeneralPrefix)
            /\ rtQuestion = WhyQuestion =>
                   StartsWith(solution,
                       <<"T","h","e"," ","e","x","p","l","a","n","a","t","i","o","n"," ",
                         "i","n","v","o","l","v","e">>)

\* a question with "how" and with "why" answered by the method synthesis
C9_Witness ==
    /\ Answered
    /\ Mentions(rtQuestion, {<<"h","o","w">>})
    /\ Mentions(rtQuestion, {<<"w","h","y">>})
    /\ StartsWith(rtAnswer.value.solution, MethodPrefix)
    /\ ~StartsWith(rtAnswer.value.solution, ExplanationPrefix)

\* "Why does fusion occur?" answered by the explanation synthesis
C9_WhyQuestion ==
    /\ Answered
    /\ rtQuestion = WhyQuestion
    /\ StartsWith(rtAnswer.value.solution, ExplanationPrefix)

-----------------------------------------------------------------------------
(* the context stack inside a call *)

\* C11: in every processProblem call, later calls on the same instance
\* included, the stack is exactly <<("meta", 0)>> before the first perspective's
\* context is pushed, and has exactly two entries once it is pushed.
C11_RootContextAtFirstPush ==
    /\ (pc = "perspective" /\ pi = 1) => mentalContextStack = <<MetaContext>>
    /\ (pc = "analyze" /\ pi = 1) => Len(mentalContextStack) = 2

\* the stack as the call found it, with the root context pushed at line 107
RootContexts ==
    IF calls <= 1 THEN <<MetaContext>> ELSE <<MetaContext, MetaContext>>

\* the contexts of the work in progress: one per level entered and not yet left
ScopedContexts ==
    LET level1 == <<[perspective |-> perspective, level |-> 1]>>
        level2 == <<[perspective |-> secondaryPerspective, level |-> 2]>>
        level3 == <<[perspective |-> tertiaryPerspective, level |-> 3]>>
    IN  CASE pc \in {"analyze", "secondary", "leave perspective"} -> level1
          [] pc \in {"refine", "tertiary", "leave secondary"} -> level1 \o level2
          [] pc \in {"deep refine", "leave tertiary"} -> level1 \o level2 \o level3
          [] OTHER -> <<>>

\* C12: inside a call the stack is the root followed by exactly the contexts of
\* the levels whose work is in progress; so when the work of a perspective at a
\* level has ended, normally or by an error, its context and nothing else has
\* been popped, and the stack is what it was before that perspective's push.
C12_PushPopBalanced ==
    pc # "idle" => mentalContextStack = RootContexts \o ScopedContexts

\* a later call that threw inside a refinement and has unwound every level
C12_Witness ==
    /\ pc = "finally" /\ thrown /\ calls >= 2
    /\ results # <<>> /\ Children(perspectiveResult) # <<>>

-----------------------------------------------------------------------------
(* the default configuration: what a call returns *)

PerspectiveCount == Len(DefaultPerspectives)

\* C13: with the default configuration the base perspectives are analysed in
\* list order, and a call returns exactly the 15 of them, named as the list is;
\* confidenceByPerspective has the same names in the same order, each with the
\* confidence the returned perspective has after its merges; and the result's
\* confidence is the synthesis's.
C13_ReturnedPerspectives ==
    /\ pc # "idle" =>
           /\ Len(results) <= PerspectiveCount
           /\ \A n \in 1..Len(results) : results[n].name = DefaultPerspectives[n]
    /\ Returned =>
           LET value == ret.value
               byPerspective == value.synthesis.confidenceByPerspective
           IN  /\ PerspectiveCount = 15
               /\ Len(value.perspectives) = 15
               /\ [n \in 1..15 |-> value.perspectives[n].name] = DefaultPerspectives
               /\ byPerspective =
                      [n \in 1..15 |->
                          [perspective |-> DefaultPerspectives[n],
                           confidence |-> value.perspectives[n].confidence]]
               /\ value.confidence = value.synthesis.confidence

\* a returned call whose perspectives' confidences were raised by a merge
C13_Witness ==
    /\ Returned
    /\ Len(ret.value.perspectives) = 15
    /\ \E n \in 1..15 :
           LET p == ret.value.perspectives[n]
           IN  \E k \in 1..Len(Children(p)) : p.confidence > Children(p)[k].confidence

\* the three insights analyzeProblemFromPerspective gives a perspective
BaseInsights(name, prob) == [n \in 1..3 |-> <<"insight", name, Ordinal[n], prob>>]

\* C14: what processWithKrang returns has one entry per base perspective, with
\* the first 3 entries of its merged insight list, which are its three base
\* insights and never a "[Refined] " one, and with the number of its children
\* as childCount, 14 in the default configuration; keyInsights are the first 5
\* entries of synthesis.keyInsights.
C14_Response ==
    Returned =>
        LET value == ret.value
            response == ret.response
            key == value.synthesis.keyInsights
        IN  /\ Len(response.perspectives) = Len(value.perspectives)
            /\ \A n \in 1..Len(value.perspectives) :
                   LET p == value.perspectives[n]
                       entry == response.perspectives[n]
                   IN  /\ entry.name = p.name
                       /\ Len(p.insights) >= 3
                       /\ entry.insights = SubSeq(p.insights, 1, 3)
                       /\ entry.insights = BaseInsights(p.name, value.problem)
                       /\ \A k \in 1..3 : Head(entry.insights[k]) # Head(RefinedPrefix)
                       /\ entry.childCount = Len(Children(p))
                       /\ entry.childCount = 14
            /\ response.keyInsights = SubSeq(key, 1, Min(5, Len(key)))

\* a response to the second question, with merged insights behind the first 3
\* and more than 5 key insights in the synthesis
C14_Witness ==
    /\ Returned /\ calls = 2
    /\ Len(ret.value.synthesis.keyInsights) > 5
    /\ \A n \in 1..Len(ret.value.perspectives) :
           /\ Len(ret.value.perspectives[n].insights) > 3
           /\ Len(ret.response.perspectives[n].insights) = 3

-----------------------------------------------------------------------------
(* an overall confidence over an empty list *)

\* complexities calculateComplexity can return: 0, a half and 1
ComplexityGrid == {0, SelectorScale \div 2, SelectorScale}

\* C15: over an empty list no overall confidence is the result of a division
\* by zero: calculateOverallConfidence of no insight is inside its clamp
\* [0.5, 0.99], and the confidence synthesizeResults gives for no perspective,
\* and the averageConfidence metric updated from it, are numbers in [0, 1].
C15_EmptyListConfidence ==
    /\ \A complexity \in ComplexityGrid :
           LET confidence == calculateOverallConfidence(<<>>, complexity)
           IN  /\ (50 * SelectorScale) \div 100 <= confidence
               /\ confidence <= (99 * SelectorScale) \div 100
    /\ (primaryPerspectives = <<>> /\ Returned) =>
           /\ IsFinite(ret.value.confidence)
           /\ FracInUnit(ret.value.confidence)
           /\ IsFinite(performanceMetrics.averageConfidence)
           /\ FracInUnit(performanceMetrics.averageConfidence)

-----------------------------------------------------------------------------
(* the default configuration: where the refinements are merged *)

\* the insights of the grandchildren of p, as they are and prefixed
DepthThreeInsights(p) ==
    UNION {UNION {Range(grandchild.insights)
                  \cup Range(Map(Prefixed, grandchild.insights))
                  \cup Range(Map(Prefixed, Map(Prefixed, grandchild.insights))) :
                     grandchild \in Range(Children(child))} :
              child \in Range(Children(p))}

\* p holds its 3 insights, then the 3 original insights of each of its 14
\* children, prefixed once; each child has 14 children of its own, which have
\* none; and no insight of a grandchild is among the insights of p
MergedAtDepthTwo(p, prob) ==
    /\ Len(Children(p)) = 14
    /\ Len(p.insights) = 45
    /\ SubSeq(p.insights, 1, 3) = BaseInsights(p.name, prob)
    /\ \A k \in 1..14 :
           LET child == Children(p)[k]
           IN  /\ SubSeq(p.insights, 3 * k + 1, 3 * k + 3)
                      = Map(Prefixed, SubSeq(child.insights, 1, 3))
               /\ \A n \in 1..3 : Head(child.insights[n]) # Head(RefinedPrefix)
               /\ Len(Children(child)) = 14
               /\ \A g \in 1..14 : Children(Children(child)[g]) = <<>>
    /\ Range(p.insights) \cap DepthThreeInsights(p) = {}

\* C16: with the default configuration, once the turn of a perspective is
\* over, and in what the call returns, every base perspective has exactly 14
\* children and 45 insights, its own 3 and the 3 original ones of each child
\* prefixed once; each child has exactly 14 children; and no insight produced
\* at depth 3 is in a base's list.
C16_DepthThreeIntoDepthTwo ==
    /\ pc # "idle" => \A n \in 1..Len(results) : MergedAtDepthTwo(results[n], problem)
    /\ Returned =>
           /\ Len(ret.value.perspectives) = 15
           /\ \A n \in 1..15 :
                  MergedAtDepthTwo(ret.value.perspectives[n], ret.value.problem)
           /\ \A n, m \in 1..15 :
                  \A child \in Range(Children(ret.value.perspectives[n])) :
                      \A grandchild \in Range(Children(child)) :
                          Range(grandchild.insights)
                              \cap Range(ret.value.perspectives[m].insights) = {}

\* a returned call in which the depth-3 insights are in every child's list
C16_Witness ==
    /\ Returned
    /\ \A n \in 1..Len(ret.value.perspectives) :
           \A child \in Range(Children(ret.value.perspectives[n])) :
               /\ Len(child.insights) = 45
               /\ \A grandchild \in Range(Children(child)) :
                      Range(Map(Prefixed, grandchild.insights)) \subseteq Range(child.insights)

-----------------------------------------------------------------------------
(* refinement and the maximum recursion depth *)

\* the list without the perspectives of that name, in list order
Others(name) == SelectSeq(primaryPerspectives, LAMBDA p : p # name)

Names(perspectives) == [n \in 1..Len(perspectives) |-> perspectives[n].name]

IsPrefix(s, t) == Len(s) <= Len(t) /\ s = SubSeq(t, 1, Len(s))

\* the perspectives whose turn is over: all but the one in progress
Finished ==
    IF pc \in {"perspective", "synthesize"} \/ (pc = "finally" /\ ~thrown)
    THEN results
    ELSE SubSeq(results, 1, Len(results) - 1)

\* what the depth allows a base perspective to hold
Gated(p, prob, whole) ==
    /\ SubSeq(p.insights, 1, 3) = BaseInsights(p.name, prob)
    /\ beliefLevels = 1 => Len(p.insights) = 3 /\ Children(p) = <<>>
    /\ beliefLevels = 2 =>
           /\ IsPrefix(Names(Children(p)), Others(p.name))
           /\ whole => Names(Children(p)) = Others(p.name)
           /\ \A k \in 1..Len(Children(p)) : Children(Children(p)[k]) = <<>>

\* C17: no context deeper than the maximum recursion depth is ever pushed.
\* With depth 1 every base keeps exactly its 3 insights and has no children,
\* and the insight network stays empty. With depth 2 each base gets one child
\* per other perspective, in list order with itself left out, and those
\* children have no children.
C17_DepthGating ==
    /\ \A n \in 1..Len(mentalContextStack) : mentalContextStack[n].level <= beliefLevels
    /\ beliefLevels = 1 => insightNetwork = <<>>
    /\ \A n \in 1..Len(results) : Gated(results[n], problem, n <= Len(Finished))
    /\ Returned =>
           \A n \in 1..Len(ret.value.perspectives) : Gated(ret.value.perspectives[n], ret.value.problem, TRUE)

\* a call at depth 2 on three perspectives that has returned
C17_Witness ==
    /\ Returned /\ beliefLevels = 2
    /\ Len(ret.value.perspectives) = 3
    /\ \A n \in 1..3 : Len(Children(ret.value.perspectives[n])) = 2

-----------------------------------------------------------------------------
(* the default configuration: how much a call generates, and that it ends *)

\* the insight bundles at depth 1, 2 and 3 under the base perspectives
BundlesAtDepth(perspectives, depth) ==
    IF depth = 1 THEN Len(perspectives)
    ELSE IF depth = 2
    THEN SumSeq([n \in 1..Len(perspectives) |-> Len(Children(perspectives[n]))])
    ELSE SumSeq([n \in 1..Len(perspectives) |->
                    SumSeq([k \in 1..Len(Children(perspectives[n])) |->
                               Len(Children(Children(perspectives[n])[k]))])])

\* each refinement has been merged exactly once: the children of p are named
\* as the other perspectives are, and p holds 3 insights for each of them
MergedOnce(p) ==
    /\ Names(Children(p)) = Others(p.name)
    /\ Len(p.insights) = 3 + 3 * Len(Children(p))
    /\ DOMAIN insightNetwork[p.name] = Range(Others(p.name))

AllBundles ==
    /\ \A n \in 1..Len(results) :
           /\ BundlesAtDepth(<<results[n]>>, 2) = 14
           /\ BundlesAtDepth(<<results[n]>>, 3) = 14 * 14
           /\ MergedOnce(results[n])
           /\ \A k \in 1..14 : MergedOnce(Children(results[n])[k])
    /\ Len(results) <= 15
    /\ pc = "synthesize" =>
           /\ BundlesAtDepth(results, 1) = 15
           /\ BundlesAtDepth(results, 2) = 210
           /\ BundlesAtDepth(results, 3) = 2940
           /\ BundlesAtDepth(results, 1) + BundlesAtDepth(results, 2)
                  + BundlesAtDepth(results, 3) = 3165

\* C18: with 15 perspectives at depth 3, when synthesis starts the call has
\* generated 15 base analyses, 210 depth-2 and 2940 depth-3 refinements, 3165
\* bundles in all, each refinement merged exactly once; and every call that has
\* started ends.
C18_BundlesAndTermination ==
    /\ []AllBundles
    /\ (pc # "idle") ~> (pc = "idle")

\* the second call, all its bundles generated, about to synthesize
C18_Witness ==
    /\ pc = "synthesize" /\ calls = 2
    /\ BundlesAtDepth(results, 3) = 2940

-----------------------------------------------------------------------------
(* the activation set at the end of a call *)

-----------------------------------------------------------------------------
(* the insight network across calls *)

NetworkSize == calculateInsightNetworkComplexity(insightNetwork)

\* every edge of the network: <<base name, refining name>>
NetworkEdges ==
    {e \in Range(DefaultPerspectives) \X Range(DefaultPerspectives) :
        e[1] \in DOMAIN insightNetwork /\ e[2] \in DOMAIN insightNetwork[e[1]]}

\* the edge of each pair merged at depth 3 in the last turn of a call holds
\* what that merge wrote
LastMergeKept(perspectives) ==
    LET last == perspectives[Len(perspectives)]
    IN  \A c \in Range(Children(last)) : \A g \in Range(Children(c)) :
            insightNetwork[c.name][g.name] =
                [confidence |-> g.confidence, insights |-> g.insights]

\* C20: the network has one edge per ordered (base name, refining name) pair
\* and a merge overwrites the edge of its pair; it is kept between calls and
\* does not grow: with the default configuration, after the first and after
\* every later call insightNetworkSize is nodes = 15, edges = 210, density = 1,
\* and no edge ever links a name to itself.
C20_NetworkSize ==
    /\ DOMAIN insightNetwork \subseteq Range(DefaultPerspectives)
    /\ \A b \in DOMAIN insightNetwork :
           /\ DOMAIN insightNetwork[b] \subseteq Range(DefaultPerspectives)
           /\ b \notin DOMAIN insightNetwork[b]
    /\ NetworkSize.edges = Cardinality(NetworkEdges)
    /\ Returned =>
           /\ ret.value.synthesis.insightNetworkSize =
                  [nodes |-> 15, edges |-> 210, density |-> Frac(1, 1)]
           /\ LastMergeKept(ret.value.perspectives)
    /\ calls >= 2 => NetworkSize = [nodes |-> 15, edges |-> 210, density |-> Frac(1, 1)]

\* a later call returned, its first turn having merged again into a full network
C20_Witness ==
    /\ Returned /\ calls = 2
    /\ ret.value.synthesis.insightNetworkSize.edges = 210
    /\ Len(Children(ret.value.perspectives[1])) = 14

-----------------------------------------------------------------------------
(* Properties of the Realtime Selector: what processInRealTime returns *)

\* the number of perspectives the complexity of the question asks for
AskedCount ==
    LET complexity == calculateComplexity(rtQuestion)
    IN  IF complexity * 10 < 3 * SelectorScale THEN 2
        ELSE IF complexity * 10 < 6 * SelectorScale THEN 3
        ELSE IF complexity * 10 < 8 * SelectorScale THEN 5
        ELSE 8

ExpertIndex(e) == CHOOSE n \in 1..Len(domainExperts) : domainExperts[n] = e

\* expert a is selected before expert b: a larger score, or the same score and
\* an earlier place in domainExperts
SelectedBefore(a, b) ==
    LET sa == perspectiveScore(rtQuestion, a)
        sb == perspectiveScore(rtQuestion, b)
    IN  sa > sb \/ (sa = sb /\ ExpertIndex(a) < ExpertIndex(b))

\* s lists the first experts of the selection order, in that order
InSelectionOrder(s) ==
    /\ Range(s) \subseteq Range(domainExperts)
    /\ \A m, n \in 1..Len(s) : m < n => SelectedBefore(s[m], s[n])
    /\ \A e \in Range(domainExperts) \ Range(s) :
           \A n \in 1..Len(s) : SelectedBefore(s[n], e)

\* C21: processInRealTime returns as perspectives exactly perspectiveCount
\* distinct expert names in selection order, and its processingSteps are
\* perspectiveCount + 4 lines: the complexity line, the selected-count line,
\* one completion line per selected expert in selection order, the synthesized
\* line, and the confidence line last.
C21_PerspectivesAndSteps ==
    Answered =>
        LET value == rtAnswer.value
            count == AskedCount
            steps == value.processingSteps
        IN  /\ Len(value.perspectives) = count
            /\ Cardinality(Range(value.perspectives)) = count
            /\ InSelectionOrder(value.perspectives)
            /\ Len(steps) = count + 4
            /\ steps[1] = <<"Analysis initiated with complexity score: ",
                            toFixed2(calculateComplexity(rtQuestion))>>
            /\ steps[2] = <<"Selected cognitive perspectives for parallel analysis", count>>
            /\ \A n \in 1..count :
                   steps[2 + n] = <<"Perspective analysis completed", value.perspectives[n]>>
            /\ steps[count + 3] = <<"Synthesized perspective insights", count>>
            /\ steps[count + 4] = <<"Solution formulated with confidence %",
                                    toFixed2Percent(value.confidence)>>

\* an answer of five perspectives whose order is not that of domainExperts
C21_Witness ==
    /\ Answered
    /\ Len(rtAnswer.value.perspectives) = 5
    /\ Len(rtAnswer.value.processingSteps) = 9
    /\ rtAnswer.value.perspectives # SubSeq(domainExperts, 1, 5)

-----------------------------------------------------------------------------
(* Properties of the Realtime Selector: the seed *)

\* seeds handed to generatePerspectiveInsight: the one processInRealTime
\* computes, and others
Seeds == {sha256(rtQuestion), sha256(WhyQuestion), sha256(<<>>), <<>>, <<"0">>}

\* the substrings the generator of an expert looks for
BranchKeys(expert) ==
    UNION {insightBranches[expert][n].keys : n \in 1..Len(insightBranches[expert])}

\* the substrings of the generator of an expert that a question contains
Matches(question, expert) ==
    {k \in BranchKeys(expert) : includes(toLowerCase(question), k)}

AnsweredTwice == Answered /\ "previous" \in DOMAIN rtAnswer

-----------------------------------------------------------------------------
(* the activation set during a call *)

\* the level-1 contexts on the stack
LevelOneContexts ==
    {n \in 1..Len(mentalContextStack) : mentalContextStack[n].level = 1}

-----------------------------------------------------------------------------
(* an error inside a perspective's turn *)

\* every edge of the network is an edge of network'
EdgesKept ==
    \A b \in DOMAIN insightNetwork :
        /\ b \in DOMAIN insightNetwork'
        /\ DOMAIN insightNetwork[b] \subseteq DOMAIN insightNetwork'[b]

\* a step of a call: the metrics change in no step but the synthesis step of a
\* call that has not thrown; once an error is on its way out neither the
\* metrics nor the network change, and the call ends by throwing; no step
\* removes an edge
ErrorStep ==
    /\ performanceMetrics' # performanceMetrics => pc = "synthesize" /\ ~thrown
    /\ (thrown \/ thrown') =>
           /\ performanceMetrics'.problemsSolved = performanceMetrics.problemsSolved
           /\ performanceMetrics'.averageConfidence = performanceMetrics.averageConfidence
           /\ performanceMetrics'.recursionEfficiency =
                  performanceMetrics.recursionEfficiency
           /\ insightNetwork' = insightNetwork
    /\ (pc = "finally" /\ thrown) => ret'.status = "threw"
    /\ EdgesKept

\* C24: an error thrown while a perspective is analysed or refined leaves
\* processProblem with the performance metrics as they were before the call
\* (the call never reaches the synthesis, the one step that changes them),
\* and the edges the call has recorded in the network stay.
C24_ErrorKeepsMetrics ==
    /\ [](thrown => pc \in {"leave tertiary", "leave secondary", "leave perspective",
                            "finally"})
    /\ [][ErrorStep]_vars

\* a second call about to throw after a first one that returned: its first
\* turn has merged refinements and their edges are in the network
C24_Witness ==
    /\ pc = "finally" /\ thrown /\ calls = 2
    /\ performanceMetrics.problemsSolved = 1
    /\ Len(results) = 2
    /\ Children(results[1]) # <<>>
    /\ \A child \in Range(Children(results[1])) :
           /\ results[1].name \in DOMAIN insightNetwork
           /\ child.name \in DOMAIN insightNetwork[results[1].name]

-----------------------------------------------------------------------------
(* what integrateRefinedInsights changes *)

\* the entry of the network for an ordered pair, if there is one
EntryOf(network, b, r) ==
    IF b \in DOMAIN network /\ r \in DOMAIN network[b]
    THEN <<network[b][r]>> ELSE <<>>

\* one integrateRefinedInsights(mBase, mRefined) call
MergeStep ==
    /\ mRefined' = mRefined
    /\ DOMAIN mBase' = DOMAIN mBase \cup {"childPerspectives"}
    /\ mBase'.id = mBase.id
    /\ mBase'.name = mBase.name
    /\ mBase'.specialization = mBase.specialization
    /\ mBase'.limitations = mBase.limitations
    /\ \A n \in DOMAIN mBase \ {"insights", "recommendations", "confidence",
                                 "childPerspectives"} : mBase'[n] = mBase[n]
    /\ mBase'.confidence >= mBase.confidence
    /\ DOMAIN insightNetwork' = DOMAIN insightNetwork \cup {mBase.name}
    /\ \A b \in DOMAIN insightNetwork', r \in MergeNames :
           <<b, r>> # <<mBase.name, mRefined.name>> =>
               EntryOf(insightNetwork', b, r) = EntryOf(insightNetwork, b, r)
    /\ EntryOf(insightNetwork', mBase.name, mRefined.name) =
           << [confidence |-> mRefined.confidence, insights |-> mRefined.insights] >>
    /\ mentalContextStack' = mentalContextStack
    /\ activePerspectives' = activePerspectives
    /\ performanceMetrics' = performanceMetrics

\* C25: integrateRefinedInsights(base, refined) changes only base.insights,
\* base.recommendations, base.confidence, base.childPerspectives and the
\* network entry of (base.name, refined.name); refined, base.id, base.name,
\* base.specialization, base.limitations, every other network entry, the
\* context stack, the activation set and the metrics stay as they are, and
\* base.confidence does not decrease.
C25_MergeFrame == [][MergeStep]_vars

\* a merge made on a network that holds other entries, the base keeping a
\* confidence larger than the boosted one of the refinement
C25_Witness ==
    /\ mMerges = 1
    /\ Cardinality(DOMAIN insightNetwork) = MaxPerspectives
    /\ mBase.confidence = mBase0.confidence
    /\ mBase.confidence > Boost(mRefined.confidence)
    /\ mBase.insights # mBase0.insights

=============================================================================
